---- MODULE Spec2Model ----
(***************************************************************************)
(* Order execution and position reconciliation of backtrader_binance.      *)
(*                                                                         *)
(* BinanceBroker (src/backtrader_binance/binance_broker.py) is driven by    *)
(* two threads: the strategy thread, which calls buy/sell/cancel, and the  *)
(* user-socket thread, which calls _handle_user_socket_message for every   *)
(* execution report the exchange pushes.  The exchange itself is the       *)
(* environment: it accepts orders, matches them and emits the reports.     *)
(*                                                                         *)
(* CCXTBroker (src/ccxt_store/ccxt_broker.py) is the futures broker that   *)
(* run_futures_strategy.py constructs and FuturesStrategy trades through;  *)
(* JustBuySellStrategy (01-LiveTrade-futures.py) is the example program    *)
(* that talks to the exchange itself.  Each has a specification of its     *)
(* own, SpecFutures and SpecExample, beside Spec.                          *)
(*                                                                         *)
(* Quantities are integers (one unit = one lot step); prices are exact     *)
(* rationals <<numerator, denominator>>, so that the averages the code     *)
(* computes in floating point are computed exactly here.                   *)
(***************************************************************************)
EXTENDS Integers, Sequences, FiniteSets, TLC

(***************************************************************************)
(* Bounds of the model.                                                    *)
(***************************************************************************)
MaxLots == 2        \* lots the strategy orders in one run, over all its orders
MaxLedgerLots == 3  \* the same, in the runs that follow the ledger alone

Symbol == "ETHUSDT"
\* The feed of both programs: store.getdata(dataname=symbol) added with
\* cerebro.adddata(data), no name given.  backtrader keeps the dataname as
\* _dataname and names the feed with the name given, or with its dataname.
AddedName == ""
FeedName_unnamed(dataname, name) == name
FeedName(dataname, name) == IF name # "" THEN name ELSE dataname
DataDataname == Symbol  \* data._dataname: the ticker the feed was asked for
DataName == FeedName(DataDataname, AddedName)  \* data._name: the ticker orders are placed for
Prices == {2000, 2010}
Sides == {"BUY", "SELL"}

(***************************************************************************)
(* Exact rational arithmetic for prices.                                   *)
(***************************************************************************)
Abs(x) == IF x < 0 THEN -x ELSE x

RECURSIVE GCD(_, _)
GCD(a, b) == IF b = 0 THEN a ELSE GCD(b, a % b)

Rat(n, d) ==
    LET g == GCD(Abs(n), Abs(d))
        s == IF d < 0 THEN -1 ELSE 1
    IN  IF n = 0 THEN <<0, 1>> ELSE <<s * (n \div g), s * (d \div g)>>

RInt(n) == <<n, 1>>
RAdd(x, y) ==
    LET g == GCD(x[2], y[2])
    IN  Rat(x[1] * (y[2] \div g) + y[1] * (x[2] \div g), (x[2] \div g) * y[2])
RScale(x, k) == Rat(x[1] * k, x[2])
RDivInt(x, k) == Rat(x[1], x[2] * k)
RMul(x, y) == Rat(x[1] * y[1], x[2] * y[2])
RDiv(x, y) == Rat(x[1] * y[2], x[2] * y[1])
RLess(x, y) == x[1] * y[2] < y[1] * x[2]
RMax(x, y) == IF RLess(x, y) THEN y ELSE x
RAbs(x) == <<Abs(x[1]), x[2]>>
RNeg(x) == <<-x[1], x[2]>>

(***************************************************************************)
(* backtrader Order status values used by the broker.                      *)
(***************************************************************************)
Created == "Created"
Submitted == "Submitted"
Accepted == "Accepted"
Partial == "Partial"
Completed == "Completed"
Canceled == "Canceled"
Expired == "Expired"
Rejected == "Rejected"

Market == "Market"
Limit == "Limit"

VARIABLES
    exOrders,     \* exchange: its orders, indexed by exchange order id
    stream,       \* user socket: execution reports pushed and not yet handled
    lastMsg,      \* user socket: the report handled last
    lastDup,      \* user socket: lastMsg was handled more than once
    lastKnown,    \* user socket: _submit had recorded the order of lastMsg
                  \* when lastMsg was handled
    listener,     \* user socket: whether the thread that calls the handler
                  \* is listening or has stopped
    ords,         \* the BinanceOrder objects, indexed by creation order
    orders,       \* BinanceBroker.orders
    open_orders,  \* BinanceBroker.open_orders
    positions,    \* BinanceBroker.positions
    notifs,       \* BinanceBroker.notifs
    pc,           \* strategy thread: where it stands inside _submit
    resp,         \* strategy thread: binance_order, the REST response held
    posClone,     \* strategy thread: pos, the Position _submit works on
    broker,       \* which of the two brokers this run uses
    cxOrders,     \* futures exchange: its orders, indexed by order id
    cOrders,      \* CCXTBroker.orders
    cPending,     \* CCXTBroker._pending_orders
    cPositions,   \* CCXTBroker.positions
    cBroker,      \* the CCXTBroker object: whether it is constructed, and
                  \* its margin_mode and default_type
    cxMargin,     \* futures exchange: the margin type of each symbol
    call,         \* the last call made, the requests it sent to the
                  \* exchange with their answers, and how it ended
    jbs,          \* JustBuySellStrategy of 01-LiveTrade-futures.py
    cxMarket,     \* futures exchange: the market of Symbol, its limits and
                  \* its precision
    fs,           \* FuturesStrategy of run_futures_strategy.py
    acct          \* the free balance of the account on the exchange, _cash
                  \* of the store and cash of BinanceBroker

exVars == <<exOrders, stream, lastMsg, lastDup, lastKnown, listener>>
brokerVars == <<ords, orders, open_orders, positions, notifs>>
submitVars == <<pc, resp, posClone>>
ccxtVars == <<cxOrders, cOrders, cPending, cPositions, cBroker, cxMargin,
              call>>
vars == <<exOrders, stream, lastMsg, lastDup, lastKnown, listener, ords,
          orders, open_orders, positions, notifs, pc, resp, posClone, broker,
          cxOrders, cOrders, cPending, cPositions, cBroker, cxMargin, call,
          jbs, cxMarket, fs, acct>>

\* A step of a run that uses BinanceBroker leaves CCXTBroker's state alone.
OfBinanceBroker ==
    /\ broker = "binance"
    /\ UNCHANGED <<broker, ccxtVars, jbs, cxMarket, fs, acct>>

\* A step of a run that uses CCXTBroker leaves BinanceBroker's state alone.
OfCCXTBroker ==
    /\ broker = "ccxt"
    /\ UNCHANGED <<broker, exVars, brokerVars, submitVars, jbs, cxMarket, fs,
                   acct>>

\* A step of a run of 01-LiveTrade-futures.py, as far as its strategy goes.
OfExample ==
    /\ broker = "example"
    /\ UNCHANGED <<broker, exVars, brokerVars, submitVars, cxOrders, cOrders,
                   cPending, cPositions, cBroker, cxMargin, cxMarket, fs,
                   acct>>

NoMsg == [e |-> "none"]
NoResp == [status |-> "none"]
NoCall == [op |-> "none", log |-> <<>>, error |-> "none", ret |-> "none"]
NoStrategy ==
    [state |-> "none", leverage |-> "none", orders |-> "None",
     submitted |-> <<>>, slept |-> <<>>]
NoBroker == [state |-> "none", margin_mode |-> "none", default_type |-> "none"]
NoPos == [size |-> 0, price |-> <<0, 1>>, held |-> FALSE, clone |-> FALSE]

(***************************************************************************)
(* The exchange (environment).  An exchange order is                      *)
(*   [side, type, origQty, price, status, trades]                          *)
(* and a trade is [t, qty, price]; trade ids grow over the whole exchange. *)
(***************************************************************************)
ExOpen(eo) == eo.status \in {"NEW", "PARTIALLY_FILLED"}

RECURSIVE TradesQty(_)
TradesQty(ts) == IF ts = <<>> THEN 0 ELSE ts[1].qty + TradesQty(Tail(ts))

RECURSIVE TradesQuote(_)
TradesQuote(ts) ==
    IF ts = <<>> THEN 0 ELSE ts[1].qty * ts[1].price + TradesQuote(Tail(ts))

RECURSIVE CountTrades(_, _)
CountTrades(eos, n) ==
    IF n = 0 THEN 0 ELSE Len(eos[n].trades) + CountTrades(eos, n - 1)

NextTradeId == CountTrades(exOrders, Len(exOrders)) + 1

RECURSIVE OrderedLots(_, _)
OrderedLots(eos, n) ==
    IF n = 0 THEN 0 ELSE eos[n].origQty + OrderedLots(eos, n - 1)

FillStatus(cum, orig) == IF cum = orig THEN "FILLED" ELSE "PARTIALLY_FILLED"

\* The execution report payload; the fields are those of the payload quoted
\* in the handler: x execution type, X order status, i order id, l/L last
\* filled quantity and price, z/Z cumulative quantity and quote, n
\* commission, t trade id.
Report(i, side, x, X, l, L, z, Z, n, t) ==
    [e |-> "executionReport", s |-> Symbol, i |-> i, S |-> side, x |-> x,
     X |-> X, l |-> l, L |-> L, z |-> z, Z |-> Z, n |-> n, t |-> t]

NewReport(i, side) == Report(i, side, "NEW", "NEW", 0, 0, 0, 0, 0, -1)

\* The report of the k-th trade of exchange order eo with id i.
TradeReport(i, eo, k) ==
    LET upto == SubSeq(eo.trades, 1, k)
        tr == eo.trades[k]
    IN  Report(i, eo.side, "TRADE", FillStatus(TradesQty(upto), eo.origQty),
               tr.qty, tr.price, TradesQty(upto), TradesQuote(upto),
               tr.qty, tr.t)

CancelReport(i, eo) ==
    Report(i, eo.side, "CANCELED", "CANCELED", 0, 0, TradesQty(eo.trades),
           TradesQuote(eo.trades), 0, -1)

\* The book: the first trade of an order is matched at BookFirst, every
\* later one at BookNext.
BookFirst == CHOOSE p \in Prices : \A q \in Prices : p <= q
BookNext == CHOOSE p \in Prices : \A q \in Prices : q <= p
TradePrice(k) == IF k = 1 THEN BookFirst ELSE BookNext

\* The trades of an order matched at once: k lots at the first level and,
\* when the order is larger, the rest at the next one.
InstantTrades(qty, k, t0) ==
    IF k = qty THEN <<[t |-> t0, qty |-> qty, price |-> TradePrice(1)]>>
    ELSE <<[t |-> t0, qty |-> k, price |-> TradePrice(1)],
           [t |-> t0 + 1, qty |-> qty - k, price |-> TradePrice(2)]>>

\* What the exchange makes of a new order: a MARKET order is matched at
\* once, a LIMIT order rests on the book.
ExNewOrder(side, type, qty, price, k) ==
    IF type = "MARKET"
    THEN [side |-> side, type |-> type, origQty |-> qty, price |-> 0,
          status |-> "FILLED", trades |-> InstantTrades(qty, k, NextTradeId)]
    ELSE [side |-> side, type |-> type, origQty |-> qty, price |-> price,
          status |-> "NEW", trades |-> <<>>]

\* The reports the exchange pushes for a new order.
NewOrderReports(i, eo) ==
    <<NewReport(i, eo.side)>> \o [k \in 1..Len(eo.trades) |-> TradeReport(i, eo, k)]

\* The REST response of create_order (binance_order).
RestResponse(i, eo) ==
    [orderId |-> i, symbol |-> Symbol, side |-> eo.side, type |-> eo.type,
     origQty |-> eo.origQty, price |-> eo.price, status |-> eo.status]

\* The exchange matches q lots of the resting order i.
ExchangeFill(i, q) ==
    /\ OfBinanceBroker
    /\ i \in 1..Len(exOrders)
    /\ ExOpen(exOrders[i])
    /\ q \in 1..(exOrders[i].origQty - TradesQty(exOrders[i].trades))
    /\ LET eo == exOrders[i]
           tr == [t |-> NextTradeId, qty |-> q,
                  price |-> TradePrice(Len(eo.trades) + 1)]
           ts == Append(eo.trades, tr)
           eo2 == [eo EXCEPT !.trades = ts,
                             !.status = FillStatus(TradesQty(ts), eo.origQty)]
       IN  /\ exOrders' = [exOrders EXCEPT ![i] = eo2]
           /\ stream' = Append(stream, TradeReport(i, eo2, Len(ts)))
    /\ UNCHANGED <<lastMsg, lastDup, lastKnown, listener>>
    /\ UNCHANGED brokerVars
    /\ UNCHANGED submitVars

\* What the user socket carries beside the reports of the broker's orders:
\* the error message the socket manager makes up when it has lost the
\* connection for good, an event of another type, the report of an order of
\* a symbol that is not in store.symbols, and the report of an order of the
\* account that this broker has not placed (its id is no id of exOrders).
ErrorMessage == [e |-> "error", m |-> "Max reconnect retries reached"]
OtherEvent == [e |-> "outboundAccountPosition"]
ForeignSymbolReport ==
    [Report(1, "BUY", "TRADE", "FILLED", 1, BookFirst, 1, BookFirst, 1, 0)
        EXCEPT !.s = "LTCUSDT"]
UnknownOrderReport ==
    Report(0, "BUY", "TRADE", "FILLED", 1, BookFirst, 1, BookFirst, 1, 0)

Anomalies == {OtherEvent, ForeignSymbolReport, UnknownOrderReport}

\* The socket pushes msg, which is no report of an order of the broker,
\* while no other message waits in it.
StreamPush(msg) ==
    /\ OfBinanceBroker
    /\ stream = <<>>
    /\ stream' = Append(stream, msg)
    /\ UNCHANGED <<exOrders, lastMsg, lastDup, lastKnown, listener>>
    /\ UNCHANGED brokerVars
    /\ UNCHANGED submitVars


(***************************************************************************)
(* backtrader's Position and OrderData, as the broker uses them.           *)
(* A position is [size, price]; price is the average entry price.          *)
(***************************************************************************)
ZeroPos == [size |-> 0, price |-> <<0, 1>>]

\* Position(size, price)
NewPosition(size, price) ==
    [size |-> size, price |-> IF size # 0 THEN price ELSE <<0, 1>>]

\* Position.update(size, price)
PositionUpdate(pos, size, price) ==
    LET oldsize == pos.size
        newsize == pos.size + size
        blend == RDivInt(RAdd(RScale(pos.price, oldsize), RScale(price, size)),
                         newsize)
        newprice ==
            IF newsize = 0 THEN <<0, 1>>
            ELSE IF oldsize = 0 THEN price
            ELSE IF oldsize > 0
                 THEN IF size > 0 THEN blend
                      ELSE IF newsize > 0 THEN pos.price ELSE price
                 ELSE IF size < 0 THEN blend
                      ELSE IF newsize < 0 THEN pos.price ELSE price
    IN  [size |-> newsize, price |-> newprice]

\* OrderData(remsize=size): nothing executed yet.
NewExecuted == [kind |-> "data", size |-> 0, price |-> <<0, 1>>, value |-> 0,
                comm |-> 0]

\* OrderData.add(size, price, value, comm) through Order.execute, which
\* returns at once for a zero size.
ExecutedAdd(ex, size, price, value, comm) ==
    IF size = 0 THEN ex
    ELSE [ex EXCEPT
            !.size = ex.size + size,
            !.price = RDivInt(RAdd(RScale(ex.price, ex.size),
                                   RScale(price, size)), ex.size + size),
            !.value = ex.value + value,
            !.comm = ex.comm + comm]

\* copysign(x, y) for integers, y # 0
CopySign(x, y) == IF y < 0 THEN -Abs(x) ELSE Abs(x)

(***************************************************************************)
(* BinanceOrder.__init__: the order object built from a REST response.     *)
(* OrderBase.__init__ negates the size of a sell order; a FILLED response  *)
(* then overwrites executed with the (signed) size itself.                 *)
(***************************************************************************)
StatusOfResponse(st) ==
    IF st = "FILLED" THEN Completed
    ELSE IF st = "NEW" THEN Submitted
    ELSE IF st = "PARTIALLY_FILLED" THEN Partial
    ELSE IF st \in {"CANCELED", "REJECTED", "EXPIRED"} THEN Canceled
    ELSE Created

BinanceOrderInit(exectype, bo) ==
    LET size == IF bo.side = "BUY" THEN bo.origQty ELSE -bo.origQty
    IN  [orderId |-> bo.orderId,
         symbol |-> bo.symbol,
         exectype |-> exectype,
         ordtype |-> IF bo.side = "BUY" THEN "Buy" ELSE "Sell",
         size |-> size,
         price |-> RInt(bo.price),
         status |-> StatusOfResponse(bo.status),
         executed |-> IF bo.status = "FILLED"
                      THEN [kind |-> "float", size |-> size,
                            price |-> <<0, 1>>, value |-> 0, comm |-> 0]
                      ELSE NewExecuted,
         info_status |-> bo.status]

Terminal(st) == st \in {Completed, Canceled, Rejected, Expired}


(***************************************************************************)
(* BinanceBroker._handle_user_socket_message.                              *)
(* The handler works on b = [ords, open_orders, positions, notifs, raised]; *)
(* raised is set when a call inside it raises, which ends the handler.     *)
(***************************************************************************)
RECURSIVE RemoveFirst(_, _)
RemoveFirst(seq, x) ==
    IF seq = <<>> THEN <<>>
    ELSE IF seq[1] = x THEN Tail(seq)
    ELSE <<seq[1]>> \o RemoveFirst(Tail(seq), x)

\* _set_order_status
SetOrderStatus(st, X) ==
    IF X = "CANCELED" THEN Canceled
    ELSE IF X = "EXPIRED" THEN Expired
    ELSE IF X = "FILLED" THEN Completed
    ELSE IF X = "PARTIALLY_FILLED" THEN Partial
    ELSE IF X = "REJECTED" THEN Rejected
    ELSE st

\* _execute_order(o, dt, l, L, Z, n) on order r: order.execute, then the
\* update of the ledger entry itself (getposition with clone=False).
\* Order.execute needs executed to be an OrderData: on the number a FILLED
\* response left there it raises, before the ledger is touched.
ExecuteOrder(b, r, msg) ==
    LET o == b.ords[r]
    IN  IF o.executed.kind # "data" /\ msg.l # 0
        THEN [b EXCEPT !.raised = TRUE]
        ELSE [b EXCEPT
                !.ords[r].executed =
                    ExecutedAdd(o.executed, msg.l, RInt(msg.L), msg.Z, msg.n),
                !.positions[DataDataname] =
                    PositionUpdate(b.positions[DataDataname],
                                   CopySign(msg.l, o.size), RInt(msg.L))]

\* A body of the loop that brings the order up to the cumulative quantity
\* of the report, whatever the status of the report.
HandleMatch_cumulative(b, r, msg) ==
    LET due == msg.z - Abs(b.ords[r].executed.size)
        b1 == IF due # 0 THEN ExecuteOrder(b, r, [msg EXCEPT !.l = due])
              ELSE b
        st == SetOrderStatus(b1.ords[r].status, msg.X)
    IN  IF b1.raised THEN b1
        ELSE [b1 EXCEPT
                !.ords[r].status = st,
                !.open_orders = IF st \notin {Accepted, Partial}
                                THEN RemoveFirst(b1.open_orders, r)
                                ELSE b1.open_orders,
                !.notifs = Append(b1.notifs, r)]

\* The body of the loop for the order r whose orderId is msg.i.
HandleMatch(b, r, msg) ==
    LET b1 == IF msg.X \in {"FILLED", "PARTIALLY_FILLED"}
              THEN ExecuteOrder(b, r, msg) ELSE b
        st == SetOrderStatus(b1.ords[r].status, msg.X)
    IN  IF b1.raised THEN b1
        ELSE [b1 EXCEPT
                !.ords[r].status = st,
                !.open_orders = IF st \notin {Accepted, Partial}
                                THEN RemoveFirst(b1.open_orders, r)
                                ELSE b1.open_orders,
                !.notifs = Append(b1.notifs, r)]

\* for o in self.open_orders: the list iterator reads position k of the list
\* as it is at that moment, so a removal makes it skip the next element.
RECURSIVE HandleLoop(_, _, _)
HandleLoop(b, msg, k) ==
    IF b.raised \/ k > Len(b.open_orders) THEN b
    ELSE IF b.ords[b.open_orders[k]].orderId = msg.i
         THEN HandleLoop(HandleMatch(b, b.open_orders[k], msg), msg, k + 1)
         ELSE HandleLoop(b, msg, k + 1)

\* A handler that raises for every message that is no execution report.
HandleUserSocketMessage_strict(b, msg) ==
    IF msg.e = "executionReport"
    THEN IF msg.s = Symbol THEN HandleLoop(b, msg, 1) ELSE b
    ELSE [b EXCEPT !.raised = TRUE]

\* _handle_user_socket_message: an execution report of a symbol of the store
\* goes through open_orders; a message of type error is raised; any other
\* message is left alone.
HandleUserSocketMessage(b, msg) ==
    IF msg.e = "executionReport"
    THEN IF msg.s = Symbol THEN HandleLoop(b, msg, 1) ELSE b
    ELSE IF msg.e = "error" THEN [b EXCEPT !.raised = TRUE]
    ELSE b

BrokerState ==
    [ords |-> ords, open_orders |-> open_orders, positions |-> positions,
     notifs |-> notifs, raised |-> FALSE]

\* The socket thread hands msg to the handler.
Handle(msg) ==
    LET b == HandleUserSocketMessage(BrokerState, msg)
    IN  /\ ords' = b.ords
        /\ open_orders' = b.open_orders
        /\ positions' = b.positions
        /\ notifs' = b.notifs
        /\ listener' = IF b.raised THEN "stopped" ELSE listener
        /\ lastKnown' = /\ msg.e = "executionReport"
                        /\ \E k \in 1..Len(orders) :
                               ords[orders[k]].orderId = msg.i
        /\ UNCHANGED orders

\* The next report of the stream reaches the handler.
StreamDeliver ==
    /\ OfBinanceBroker
    /\ listener = "listening"
    /\ stream # <<>>
    /\ Handle(Head(stream))
    /\ stream' = Tail(stream)
    /\ lastMsg' = Head(stream)
    /\ lastDup' = FALSE
    /\ UNCHANGED exOrders
    /\ UNCHANGED submitVars

\* The socket hands the report it handled last to the handler once more
\* (a frame repeated by the connection).
StreamRedeliver ==
    /\ OfBinanceBroker
    /\ listener = "listening"
    /\ lastMsg # NoMsg
    /\ Handle(lastMsg)
    /\ lastDup' = TRUE
    /\ UNCHANGED <<exOrders, stream, lastMsg>>
    /\ UNCHANGED submitVars


(***************************************************************************)
(* BinanceBroker._submit, in the steps at which the socket thread can run  *)
(* in between: the REST call, the construction and registration of the     *)
(* order, and the update of the ledger for an order filled at once.        *)
(***************************************************************************)
OrderTypeOf(exectype) == IF exectype = Market THEN "MARKET" ELSE "LIMIT"

\* buy/sell -> _submit: store.create_order.  The exchange takes the order,
\* pushes its reports and answers; the response is on its way back.
SubmitCreateWithin(max, side, exectype, size, price, k) ==
    /\ OfBinanceBroker
    /\ pc = "idle"
    /\ OrderedLots(exOrders, Len(exOrders)) + size <= max
    /\ LET i == Len(exOrders) + 1
           eo == ExNewOrder(side, OrderTypeOf(exectype), size, price, k)
       IN  /\ exOrders' = Append(exOrders, eo)
           /\ stream' = stream \o NewOrderReports(i, eo)
           /\ resp' = [RestResponse(i, eo) EXCEPT !.type = exectype]
    /\ pc' = "created"
    /\ UNCHANGED <<lastMsg, lastDup, lastKnown, listener, posClone>>
    /\ UNCHANGED brokerVars

SubmitCreate(side, exectype, size, price, k) ==
    SubmitCreateWithin(MaxLots, side, exectype, size, price, k)

\* The average price of the trades get_my_trades returns.
AvgTradePrice(ts, price) ==
    IF TradesQty(ts) > 0 THEN Rat(TradesQuote(ts), TradesQty(ts))
    ELSE RInt(price)

\* The order object of _submit: BinanceOrder(...) and, for a MARKET order
\* answered FILLED, the price from get_my_trades (ok) or, when that call
\* raises, from the last close.
SubmitOrder(bo, ok, close) ==
    LET o == BinanceOrderInit(bo.type, bo)
        ts == exOrders[bo.orderId].trades
    IN  IF OrderTypeOf(bo.type) = "MARKET" /\ bo.status = "FILLED"
        THEN IF ok
             THEN IF ts # <<>>
                  THEN [o EXCEPT !.price = AvgTradePrice(ts, bo.price)]
                  ELSE o
             ELSE [o EXCEPT !.price = RInt(close)]
        ELSE o

\* A _submit that also enters the order in open_orders, where the handler
\* looks orders up.
SubmitRegister_open(r) ==
    /\ orders' = Append(orders, r)
    /\ open_orders' = Append(open_orders, r)

\* Where _submit records the new order r: self.orders (taken to be a list
\* the broker has; nothing else of the broker reads it).
SubmitRegister(r) ==
    /\ orders' = Append(orders, r)
    /\ UNCHANGED open_orders

\* getposition(data): the ledger entry, cloned unless clone=False.
GetPosition(clone) ==
    [size |-> positions[DataDataname].size,
     price |-> positions[DataDataname].price,
     held |-> TRUE, clone |-> clone]

\* The response arrives: the order is built and recorded; an order that is
\* Completed goes on to the ledger, any other is returned.
SubmitBuild(ok, close) ==
    /\ OfBinanceBroker
    /\ pc = "created"
    /\ LET o == SubmitOrder(resp, ok, close)
           r == Len(ords) + 1
       IN  /\ ords' = Append(ords, o)
           /\ SubmitRegister(r)
           /\ IF o.status = Completed
              THEN /\ posClone' = GetPosition(TRUE)
                   /\ pc' = "ledger"
              ELSE /\ posClone' = NoPos
                   /\ pc' = "idle"
    /\ resp' = NoResp
    /\ UNCHANGED <<positions, notifs>>
    /\ UNCHANGED exVars

\* if pos: pos.update(size, price)  else: positions[name] = Position(...)
\* pos is the clone getposition returned, so the update stays in the clone.
SubmitLedger ==
    /\ OfBinanceBroker
    /\ pc = "ledger"
    /\ LET o == ords[Len(ords)]
       IN  IF posClone.size # 0
           THEN positions' =
                    IF posClone.clone THEN positions
                    ELSE [positions EXCEPT ![DataDataname] =
                            PositionUpdate(positions[DataDataname], o.size,
                                           o.price)]
           ELSE positions' =
                    [positions EXCEPT ![DataName] = NewPosition(o.size, o.price)]
    /\ posClone' = NoPos
    /\ pc' = "idle"
    /\ UNCHANGED <<ords, orders, open_orders, notifs, resp>>
    /\ UNCHANGED exVars

\* A cancel that marks the order canceled as soon as the request is sent.
CancelLocal_mark(r) ==
    /\ ords' = [ords EXCEPT ![r].status = Canceled]
    /\ UNCHANGED <<orders, open_orders, positions, notifs>>

\* What cancel does to the broker's own record of order r: nothing.
CancelLocal(r) == UNCHANGED brokerVars

\* cancel(order): store.cancel_order.  The exchange cancels an order that is
\* still open and pushes the report; for any other it answers with an
\* error.  The broker changes nothing of its own.
Cancel(r) ==
    /\ OfBinanceBroker
    /\ pc = "idle"
    /\ r \in 1..Len(ords)
    /\ LET i == ords[r].orderId
           eo == exOrders[i]
       IN  IF ExOpen(eo)
           THEN /\ exOrders' = [exOrders EXCEPT ![i].status = "CANCELED"]
                /\ stream' = Append(stream, CancelReport(i, eo))
           ELSE UNCHANGED <<exOrders, stream>>
    /\ CancelLocal(r)
    /\ UNCHANGED <<lastMsg, lastDup, lastKnown, listener>>
    /\ UNCHANGED submitVars

\* get_notification
GetNotification ==
    /\ OfBinanceBroker
    /\ pc = "idle"
    /\ notifs' = IF notifs = <<>> THEN notifs ELSE Tail(notifs)
    /\ UNCHANGED <<ords, orders, open_orders, positions>>
    /\ UNCHANGED exVars
    /\ UNCHANGED submitVars

\* The statuses the exchange gives an order, in a REST response and in the
\* X of an execution report.
ExchangeStatuses ==
    {"NEW", "PARTIALLY_FILLED", "FILLED", "CANCELED", "REJECTED", "EXPIRED"}

\* BinanceOrder(owner, data, exectype, binance_order) on its own, for a
\* response of one lot with the status st.  One order is enough here:
\* _set_order_status touches the order it is given and nothing else.
NewBinanceOrder(side, st) ==
    /\ OfBinanceBroker
    /\ ords = <<>>
    /\ ords' = <<BinanceOrderInit(Market,
                    [orderId |-> 1, symbol |-> Symbol, side |-> side,
                     type |-> "MARKET", origQty |-> 1, price |-> 0,
                     status |-> st])>>
    /\ UNCHANGED <<orders, open_orders, positions, notifs>>
    /\ UNCHANGED exVars
    /\ UNCHANGED submitVars

\* _set_order_status(order, binance_order_status) on its own, for the order
\* r and the status X; lastMsg keeps what it was called with.
SetOrderStatusCall(r, X) ==
    /\ OfBinanceBroker
    /\ r \in 1..Len(ords)
    /\ ords' = [ords EXCEPT ![r].status = SetOrderStatus(@, X)]
    /\ lastMsg' = [e |-> "_set_order_status", i |-> r, X |-> X]
    /\ UNCHANGED <<orders, open_orders, positions, notifs>>
    /\ UNCHANGED <<exOrders, stream, lastDup, lastKnown, listener>>
    /\ UNCHANGED submitVars

(***************************************************************************)
(* CCXTBroker (src/ccxt_store/ccxt_broker.py) and the futures exchange it  *)
(* talks to.  An exchange order is [side, type, amount, status] with the   *)
(* status fetch_order reports: open, closed or canceled.  CCXTBroker.orders *)
(* maps an order id to [status, updates, order]; here it is a function     *)
(* whose domain is the set of ids it holds.                                *)
(*                                                                         *)
(* Every request to the exchange is answered "ok", with an error code of   *)
(* the exchange, or not at all ("transient": a network failure, a timeout, *)
(* a rate limit).  call.log lists the requests of the last call with their *)
(* answers, and call.error is the error the call raised, "none" when it    *)
(* returned.                                                               *)
(***************************************************************************)
Req(r, a) == [req |-> r, ans |-> a]

\* A request that names a symbol.
SymReq(r, sym, a) == [req |-> r, sym |-> sym, ans |-> a]

\* Whether a request reaches the exchange and its answer comes back.
Net == {"ok", "transient"}

\* CCXTStore's retries, the number of attempts a request is to be given.
retries == 3

\* The answers of the exchange to an order request: the order as it stands
\* when the exchange answers, filled ("closed") or not ("open"), or an error.
Answers == {"open", "closed", "transient", "-2019", "-1102"}

Raised(c) == c.error # "none"

\* The record of a call that returned ret, and of one that raised error.
Returns(op, log, ret) == [op |-> op, log |-> log, error |-> "none", ret |-> ret]
Raises(op, log, error) == [op |-> op, log |-> log, error |-> error, ret |-> "none"]

\* The record of a call of op whose outcome is c = [log, error, ret].
CallOf(op, c) ==
    IF c.error = "none" THEN Returns(op, c.log, c.ret)
    ELSE Raises(op, c.log, c.error)

\* The values of the constructor's margin_mode and default_type.
MarginModes == {"isolated", "cross"}
DefaultTypes == {"future", "spot"}

\* What the exchange does with the two requests made for a symbol at
\* start: it takes the leverage or refuses it (-4028), it takes the margin
\* type or refuses it (-4048, the symbol has a position), or the request
\* fails in transit.
SetupAnswers ==
    [lev : {"ok", "transient", "-4028"}, margin : {"ok", "transient", "-4048"}]

\* store.symbols, as a list and as a set.
StoreSymbols == <<Symbol, "BTCUSDT">>
StoreSymbolSet == {StoreSymbols[k] : k \in 1..Len(StoreSymbols)}

\* What the exchange does with the requests of one start, symbol by
\* symbol.  The start ends with the first request that fails, so the
\* answers listed after a failure are never asked for: they are "ok".
FirstFailureOnly(a) ==
    \A k \in DOMAIN a :
        /\ a[k].lev # "ok" => a[k].margin = "ok"
        /\ \A j \in DOMAIN a :
              (j > k /\ (a[k].lev # "ok" \/ a[k].margin # "ok"))
              => (a[j].lev = "ok" /\ a[j].margin = "ok")

SetupRuns ==
    {a \in [1..Len(StoreSymbols) -> SetupAnswers] : FirstFailureOnly(a)}

\* A position record of fapiPrivateV2GetPositionRisk, and None in its place.
PositionRecord(amt) == [found |-> TRUE, positionAmt |-> amt]
None == [found |-> FALSE, positionAmt |-> 0]

\* CCXTBroker.positions without an entry.
NoPositions == [sym \in {Symbol} |-> None]

\* The broker object exists: its construction has returned.
Ready == cBroker.state = "ready"

\* The values of the enumeration OrderType that create_order is given.
OrderType_MARKET == "market"
OrderType_LIMIT == "limit"

\* str.upper on the strings the broker applies it to.
Upper(str) ==
    CASE str = "market" -> "MARKET"
      [] str = "limit" -> "LIMIT"
      [] str = "isolated" -> "ISOLATED"
      [] str = "cross" -> "CROSS"
      [] OTHER -> str

RECURSIVE FuturesLots(_, _)
FuturesLots(eos, n) ==
    IF n = 0 THEN 0 ELSE eos[n].amount + FuturesLots(eos, n - 1)

\* What the exchange may answer to an order request: a MARKET order is
\* taken, or refused for lack of margin (-2019); create_order sends no
\* price, so a LIMIT order is refused as malformed (-1102).
OrderAnswers(type) ==
    IF Upper(type) = "MARKET" THEN {"open", "closed", "transient", "-2019"}
    ELSE {"transient", "-1102"}

\* create_order on the exchange orders eos: the side is checked, the request
\* is built and sent with fapiPrivatePostOrder, and the exchange's answer is
\* returned as it is.  The handler of an error logs order_params: for a side
\* that is neither BUY nor SELL that name is not bound yet.
CreateOrder(eos, side, type, amount, ans) ==
    IF side \notin {"BUY", "SELL"}
    THEN [orders |-> eos, log |-> <<>>, error |-> "UnboundLocalError",
          ret |-> "none"]
    ELSE IF ans \notin {"open", "closed"}
    THEN [orders |-> eos, log |-> <<Req("order", ans)>>, error |-> ans,
          ret |-> "none"]
    ELSE [orders |-> Append(eos,
                            [side |-> side, type |-> Upper(type),
                             amount |-> amount,
                             status |-> ans]),
          log |-> <<Req("order", "ok")>>,
          error |-> "none",
          ret |-> "order"]

CCXTCreateOrder(side, type, amount, ans) ==
    /\ OfCCXTBroker
    /\ Ready
    /\ ans \in OrderAnswers(type)
    /\ FuturesLots(cxOrders, Len(cxOrders)) + amount <= MaxLots
    /\ LET c == CreateOrder(cxOrders, side, type, amount, ans)
       IN  /\ cxOrders' = c.orders
           /\ call' = CallOf("create_order", c)
    /\ UNCHANGED <<cOrders, cPending, cPositions, cBroker, cxMargin>>

\* The exchange fills the open order id.
FuturesFill(id) ==
    /\ OfCCXTBroker
    /\ id \in 1..Len(cxOrders)
    /\ cxOrders[id].status = "open"
    /\ cxOrders' = [cxOrders EXCEPT ![id].status = "closed"]
    /\ UNCHANGED <<cOrders, cPending, cPositions, cBroker, cxMargin, call>>

\* What the exchange answers to a request to cancel order id, when the
\* request reaches it: it cancels an open order and refuses any other
\* (-2011).
CancelAnswer(id, net) ==
    IF net # "ok" THEN net
    ELSE IF cxOrders[id].status = "open" THEN "ok" ELSE "-2011"

\* cancel_order: an error of exchange.cancel_order is raised again;
\* otherwise the order is marked CANCELED in orders, if it is there, and
\* dropped from _pending_orders.
CCXTCancelOrder(id, net) ==
    /\ OfCCXTBroker
    /\ Ready
    /\ id \in 1..Len(cxOrders)
    /\ LET ans == CancelAnswer(id, net)
       IN  /\ IF ans = "ok"
              THEN /\ cxOrders' = [cxOrders EXCEPT ![id].status = "canceled"]
                   /\ cOrders' =
                        IF id \in DOMAIN cOrders
                        THEN [cOrders EXCEPT
                                ![id].status = "canceled",
                                ![id].updates = Append(@, "canceled")]
                        ELSE cOrders
                   /\ cPending' = RemoveFirst(cPending, id)
              ELSE UNCHANGED <<cxOrders, cOrders, cPending>>
           /\ call' = IF ans = "ok"
                       THEN Returns("cancel_order",
                                    <<Req("cancel_order", ans)>>, "result")
                       ELSE Raises("cancel_order",
                                   <<Req("cancel_order", ans)>>, ans)
    /\ UNCHANGED <<cPositions, cBroker, cxMargin>>

\* get_order on the broker state c = [orders, pending]: exchange.fetch_order
\* and, for an order in orders, the fetched order and one more update.
GetOrder(c, id) ==
    IF id \in DOMAIN c.orders
    THEN [c EXCEPT !.orders[id].order = cxOrders[id],
                   !.orders[id].updates = Append(@, cxOrders[id].status)]
    ELSE c

CCXTGetOrder(id, net) ==
    /\ OfCCXTBroker
    /\ Ready
    /\ id \in 1..Len(cxOrders)
    /\ cOrders' =
          IF net = "ok"
          THEN GetOrder([orders |-> cOrders, pending |-> cPending], id).orders
          ELSE cOrders
    /\ call' = IF net = "ok"
                THEN Returns("get_order", <<Req("fetch_order", net)>>, "order")
                ELSE Raises("get_order", <<Req("fetch_order", net)>>, net)
    /\ UNCHANGED <<cxOrders, cPending, cPositions, cBroker, cxMargin>>

\* update_pending_orders: for every id of a copy of _pending_orders,
\* get_order, and the id is dropped once the order is neither open nor
\* pending.
RECURSIVE UpdatePending(_, _)
UpdatePending(c, ids) ==
    IF ids = <<>> THEN c
    ELSE LET c1 == GetOrder(c, ids[1])
             c2 == IF cxOrders[ids[1]].status \notin {"open", "pending"}
                   THEN [c1 EXCEPT !.pending = RemoveFirst(@, ids[1])]
                   ELSE c1
         IN  UpdatePending(c2, Tail(ids))

CCXTUpdatePendingOrders ==
    /\ OfCCXTBroker
    /\ Ready
    /\ LET c == UpdatePending([orders |-> cOrders, pending |-> cPending],
                              cPending)
       IN  /\ cOrders' = c.orders
           /\ cPending' = c.pending
    /\ call' = Returns("update_pending_orders",
                        [k \in 1..Len(cPending) |-> Req("fetch_order", "ok")],
                        "None")
    /\ UNCHANGED <<cxOrders, cPositions, cBroker, cxMargin>>

\* The program ends and is started again: the broker object and what it
\* held are gone, the exchange keeps its orders and margin types.
Restart ==
    /\ OfCCXTBroker
    /\ cBroker # NoBroker \/ call # NoCall
    /\ cBroker' = NoBroker
    /\ cOrders' = <<>>
    /\ cPending' = <<>>
    /\ cPositions' = NoPositions
    /\ call' = NoCall
    /\ UNCHANGED <<cxOrders, cxMargin>>

\* What the exchange answers to fapiPrivatePostMarginType when the request
\* reaches it and it has no objection: a symbol that has the type already
\* is answered with error -4046, "No need to change margin type".
MarginAnswer(margins, sym, type, ans) ==
    IF ans # "ok" THEN ans
    ELSE IF margins[sym] = type THEN "-4046" ELSE "ok"

\* A handler of the margin type error that passes over none.
MarginTypeError_strict(mar) == IF mar = "ok" THEN "none" ELSE mar

\* The error _initialize_trading_settings is left with after the answer mar
\* to fapiPrivatePostMarginType: none when the request is taken or the
\* error text holds "code":-4046, else the error itself.
MarginTypeError(mar) == IF mar \in {"ok", "-4046"} THEN "none" ELSE mar

\* The loop of _initialize_trading_settings over syms: for each symbol
\* fapiPrivatePostLeverage, then fapiPrivatePostMarginType with the upper
\* case margin_mode.  An error of the second whose text holds "code":-4046
\* is logged and passed over; any other error of either request is raised
\* again, which ends the loop.  answers[k] = [lev, margin] is what the
\* exchange does with the two requests of the k-th symbol.  The outcome is
\* [margins, log, error].
RECURSIVE InitializeSymbols(_, _, _, _, _)
InitializeSymbols(syms, k, mode, answers, st) ==
    IF k > Len(syms) \/ st.error # "none" THEN st
    ELSE LET sym == syms[k]
             lev == answers[k].lev
             mar == MarginAnswer(st.margins, sym, Upper(mode),
                                 answers[k].margin)
         IN  IF lev # "ok"
             THEN [st EXCEPT !.log = Append(@, SymReq("leverage", sym, lev)),
                             !.error = lev]
             ELSE InitializeSymbols(syms, k + 1, mode, answers,
                    [margins |-> IF mar = "ok"
                                 THEN [st.margins EXCEPT ![sym] = Upper(mode)]
                                 ELSE st.margins,
                     log |-> st.log \o <<SymReq("leverage", sym, "ok"),
                                          SymReq("marginType", sym, mar)>>,
                     error |-> MarginTypeError(mar)])

\* _initialize_trading_settings: with default_type future, load_markets and
\* the loop over store.symbols; every error is raised again.  With another
\* default_type nothing is done.
InitializeTradingSettings(mode, default_type, markets, answers) ==
    IF default_type # "future"
    THEN [margins |-> cxMargin, log |-> <<>>, error |-> "none"]
    ELSE IF markets # "ok"
    THEN [margins |-> cxMargin, log |-> <<Req("load_markets", markets)>>,
          error |-> markets]
    ELSE InitializeSymbols(StoreSymbols, 1, mode, answers,
                           [margins |-> cxMargin,
                            log |-> <<Req("load_markets", "ok")>>,
                            error |-> "none"])

\* CCXTBroker(store, leverage, margin_mode, default_type): __init__ keeps
\* its arguments, starts with empty orders, positions and _pending_orders
\* and calls _initialize_trading_settings; when that raises there is no
\* broker object.  It is the first thing a run of the program does.
CCXTBrokerInit(mode, default_type, markets, answers) ==
    /\ OfCCXTBroker
    /\ cBroker = NoBroker /\ call = NoCall
    /\ LET c == InitializeTradingSettings(mode, default_type, markets, answers)
       IN  /\ cxMargin' = c.margins
           /\ cBroker' = IF c.error = "none"
                          THEN [state |-> "ready", margin_mode |-> mode,
                                default_type |-> default_type]
                          ELSE NoBroker
           /\ call' = IF c.error = "none"
                       THEN Returns("__init__", c.log, "broker")
                       ELSE Raises("__init__", c.log, c.error)
    /\ cOrders' = <<>>
    /\ cPending' = <<>>
    /\ cPositions' = NoPositions
    /\ UNCHANGED cxOrders

\* The net position of the symbol on the exchange: what its filled orders
\* have bought less what they have sold.
RECURSIVE PositionAmt(_, _)
PositionAmt(eos, n) ==
    IF n = 0 THEN 0
    ELSE (IF eos[n].status = "closed"
          THEN (IF eos[n].side = "BUY" THEN eos[n].amount ELSE -eos[n].amount)
          ELSE 0)
         + PositionAmt(eos, n - 1)

\* get_position: with default_type future, fapiPrivateV2GetPositionRisk and
\* the record of the symbol in its answer, None when there is none (listed
\* is whether the exchange lists a symbol without a position); the record
\* found is stored in positions.  With another default_type nothing is
\* done and None is returned.  The outcome is [positions, log, error, pos].
GetPositionRisk(b, pos, eos, net, listed) ==
    LET amt == PositionAmt(eos, Len(eos))
        found == amt # 0 \/ listed
    IN  IF b.default_type # "future"
        THEN [positions |-> pos, log |-> <<>>, error |-> "none",
              pos |-> None]
        ELSE IF net # "ok"
        THEN [positions |-> pos, log |-> <<Req("positionRisk", net)>>,
              error |-> net, pos |-> None]
        ELSE [positions |-> IF found
                            THEN [pos EXCEPT ![Symbol] = PositionRecord(amt)]
                            ELSE pos,
              log |-> <<Req("positionRisk", "ok")>>,
              error |-> "none",
              pos |-> IF found THEN PositionRecord(amt) ELSE None]

CCXTGetPosition(net, listed) ==
    /\ OfCCXTBroker
    /\ Ready
    /\ LET g == GetPositionRisk(cBroker, cPositions, cxOrders, net, listed)
       IN  /\ cPositions' = g.positions
           /\ call' = IF g.error # "none"
                       THEN Raises("get_position", g.log, g.error)
                       ELSE Returns("get_position", g.log,
                                    IF g.pos.found THEN "position"
                                    ELSE "None")
    /\ UNCHANGED <<cxOrders, cOrders, cPending, cBroker, cxMargin>>

\* A close_position that decides on the record an earlier call has left in
\* positions instead of the one it has just read.
ClosePosition_stored(b, pos, eos, net, listed, ans) ==
    LET g == GetPositionRisk(b, pos, eos, net, listed)
        amt == pos[Symbol].positionAmt
        c == CreateOrder(eos, IF amt > 0 THEN "SELL" ELSE "BUY",
                         OrderType_MARKET, Abs(amt), ans)
    IN  IF g.error # "none"
        THEN [positions |-> g.positions, orders |-> eos, log |-> g.log,
              error |-> g.error, ret |-> "none"]
        ELSE IF amt # 0
        THEN [positions |-> g.positions, orders |-> c.orders,
              log |-> g.log \o c.log, error |-> c.error, ret |-> c.ret]
        ELSE [positions |-> g.positions, orders |-> eos, log |-> g.log,
              error |-> "none", ret |-> "None"]

\* close_position: get_position, and for a record with a positionAmt other
\* than zero create_order of a MARKET order, SELL for a positive amount and
\* BUY for a negative one, of the absolute amount; its answer is returned.
\* Otherwise None is returned.  An error of either call is raised again.
ClosePosition(b, pos, eos, net, listed, ans) ==
    LET g == GetPositionRisk(b, pos, eos, net, listed)
        amt == g.pos.positionAmt
        c == CreateOrder(eos, IF amt > 0 THEN "SELL" ELSE "BUY",
                         OrderType_MARKET, Abs(amt), ans)
    IN  IF g.error # "none"
        THEN [positions |-> g.positions, orders |-> eos, log |-> g.log,
              error |-> g.error, ret |-> "none"]
        ELSE IF g.pos.found /\ amt # 0
        THEN [positions |-> g.positions, orders |-> c.orders,
              log |-> g.log \o c.log, error |-> c.error, ret |-> c.ret]
        ELSE [positions |-> g.positions, orders |-> eos, log |-> g.log,
              error |-> "none", ret |-> "None"]

CCXTClosePosition(net, listed, ans) ==
    /\ OfCCXTBroker
    /\ Ready
    /\ ans \in OrderAnswers(OrderType_MARKET)
    /\ LET c == ClosePosition(cBroker, cPositions, cxOrders, net, listed,
                              ans)
       IN  /\ FuturesLots(c.orders, Len(c.orders)) <= MaxLots
           /\ cxOrders' = c.orders
           /\ cPositions' = c.positions
           /\ call' = CallOf("close_position", c)
    /\ UNCHANGED <<cOrders, cPending, cBroker, cxMargin>>


\* get_available_balance: with default_type future the availableBalance of
\* USDT in the answer of fapiPrivateV2GetAccount, and 0.0 when the request
\* fails.  bal is what the exchange does: it answers with a balance that is
\* "enough" for the margin asked for or "short" of it, or the request fails
\* ("transient").  With another default_type no statement returns a value:
\* the result is None.
GetAvailableBalance(b, bal) ==
    IF b.default_type # "future" THEN [log |-> <<>>, value |-> "None"]
    ELSE IF bal = "transient"
    THEN [log |-> <<Req("account", "transient")>>, value |-> "0.0"]
    ELSE [log |-> <<Req("account", "ok")>>, value |-> bal]

\* transfer_to_isolated_margin: fapiPrivatePostPositionMargin of type 1;
\* True when the request is taken, False when it fails in any way.
TransferToIsolatedMargin(transfer) ==
    [log |-> <<Req("positionMargin", transfer)>>, value |-> transfer = "ok"]

(***************************************************************************)
(* FuturesStrategy (src/ccxt_store/strategies/futures_strategy.py).        *)
(***************************************************************************)
\* What happens to the requests of one _open_short.  The call ends at the
\* first check that fails, so what is listed after it is never asked for.
OpenShortRuns ==
    {r \in [bal : {"enough", "short", "transient"},
            notional_ok : BOOLEAN,
            transfer : {"ok", "transient", "-4050"},
            ans : OrderAnswers(OrderType_MARKET)] :
        /\ r.bal # "enough" => r.notional_ok
        /\ (r.bal # "enough" \/ ~r.notional_ok) => r.transfer = "ok"
        /\ (r.bal # "enough" \/ ~r.notional_ok \/ r.transfer # "ok")
             => r.ans = "open"}

\* An _open_short that sends the order first and moves the margin after it.
OpenShort_orderFirst(b, eos, amount, r) ==
    LET a == GetAvailableBalance(b, r.bal)
        t == TransferToIsolatedMargin(r.transfer)
        c == CreateOrder(eos, "SELL", OrderType_MARKET, amount, r.ans)
    IN  IF a.value = "None"
        THEN [orders |-> eos, log |-> a.log, error |-> "TypeError",
              ret |-> "none"]
        ELSE IF a.value # "enough" \/ ~r.notional_ok
        THEN [orders |-> eos, log |-> a.log, error |-> "none", ret |-> "None"]
        ELSE [orders |-> c.orders, log |-> a.log \o c.log \o t.log,
              error |-> c.error, ret |-> c.ret]

\* _open_short: the quantity and the margin it needs are computed (amount is
\* target_qty, notional_ok is position_value >= min_notional), then
\* get_available_balance; it returns when the balance is below the margin
\* and when the value is below the minimum notional; with margin_mode
\* isolated transfer_to_isolated_margin, and it returns when that gives
\* False; then create_order of a MARKET SELL, whose answer is returned.
\* Every error is logged and raised again.  A balance of None cannot be
\* compared with the margin: TypeError.
OpenShort(b, eos, amount, r) ==
    LET a == GetAvailableBalance(b, r.bal)
        isolated == b.margin_mode = "isolated"
        t == TransferToIsolatedMargin(r.transfer)
        pre == IF isolated THEN a.log \o t.log ELSE a.log
        c == CreateOrder(eos, "SELL", OrderType_MARKET, amount, r.ans)
    IN  IF a.value = "None"
        THEN [orders |-> eos, log |-> a.log, error |-> "TypeError",
              ret |-> "none"]
        ELSE IF a.value # "enough" \/ ~r.notional_ok
        THEN [orders |-> eos, log |-> a.log, error |-> "none", ret |-> "None"]
        ELSE IF isolated /\ ~t.value
        THEN [orders |-> eos, log |-> pre, error |-> "none", ret |-> "None"]
        ELSE [orders |-> c.orders, log |-> pre \o c.log, error |-> c.error,
              ret |-> c.ret]

FuturesOpenShort(amount, r) ==
    /\ OfCCXTBroker
    /\ Ready
    /\ FuturesLots(cxOrders, Len(cxOrders)) + amount <= MaxLots
    /\ LET c == OpenShort(cBroker, cxOrders, amount, r)
       IN  /\ cxOrders' = c.orders
           /\ call' = CallOf("_open_short", c)
    /\ UNCHANGED <<cOrders, cPending, cPositions, cBroker, cxMargin>>

(***************************************************************************)
(* The cash of BinanceBroker.  The store (binance_store.py) keeps _cash,   *)
(* the free balance it has read from the exchange with its balance query.  *)
(***************************************************************************)
FreeBalances == {100, 200, 300}

\* After the construction of the store: it has read the balance once.
StoreAccount == [exchange |-> 100, store_cash |-> 100, cash |-> 0]

\* A step on the cash of a run that uses BinanceBroker.
OfCash ==
    /\ broker = "binance"
    /\ UNCHANGED <<broker, exVars, brokerVars, submitVars, cxOrders, cOrders,
                   cPending, cPositions, cBroker, cxMargin, jbs, cxMarket,
                   fs>>

\* The free balance on the exchange changes: a fill, a fee, a transfer.
ExchangeBalance(b) ==
    /\ OfCash
    /\ b # acct.exchange
    /\ acct' = [acct EXCEPT !.exchange = b]
    /\ UNCHANGED call

\* The balance query of the store: _cash becomes the free balance the
\* exchange answers with.
StoreGetBalance ==
    /\ OfCash
    /\ acct' = [acct EXCEPT !.store_cash = acct.exchange]
    /\ call' = Returns("get_balance", <<Req("account", "ok")>>, "None")

\* getcash: self.cash = self._store._cash, which is returned.
GetCash ==
    /\ OfCash
    /\ acct' = [acct EXCEPT !.cash = acct.store_cash]
    /\ call' = Returns("getcash", <<>>, "cash")

(***************************************************************************)
(* The sizes FuturesStrategy computes.  A float of the program is the      *)
(* rational it stands for, so a size, a price and a value are exact here.  *)
(***************************************************************************)
Pow10(n) == IF n = 0 THEN 1 ELSE IF n = 1 THEN 10 ELSE IF n = 2 THEN 100 ELSE 1000

\* round(x, ndigits) of a float that is not negative: the multiple of
\* 10^-ndigits nearest to x, the even one of two that are equally near.
Round(x, ndigits) ==
    LET n == x[1] * Pow10(ndigits)
        d == x[2]
        f == n \div d
        twice == 2 * (n % d)
        units == IF twice > d THEN f + 1
                 ELSE IF twice < d THEN f
                 ELSE IF f % 2 = 0 THEN f ELSE f + 1
    IN  Rat(units, Pow10(ndigits))

\* x cut down to ndigits decimals.
Truncate(x, ndigits) ==
    Rat((x[1] * Pow10(ndigits)) \div x[2], Pow10(ndigits))

\* int(s) of a string of digits, given as the sequence of its characters.
Digit(c) ==
    CASE c = "0" -> 0 [] c = "1" -> 1 [] c = "2" -> 2 [] c = "3" -> 3

RECURSIVE IntOfStr(_, _)
IntOfStr(str, n) ==
    IF n = 0 THEN 0 ELSE 10 * IntOfStr(str, n - 1) + Digit(str[n])

\* The decimals _open_short takes from str(market['precision']['amount']):
\* with a point in the string the length of what follows the last point,
\* and the integer the string spells otherwise.
PrecisionOf(precision_str) ==
    LET points == {i \in 1..Len(precision_str) : precision_str[i] = "."}
        last == CHOOSE i \in points : \A j \in points : j <= i
    IN  IF points # {} THEN Len(precision_str) - last
        ELSE IntOfStr(precision_str, Len(precision_str))

\* The markets the exchange may have for the symbol: the smallest amount
\* and the smallest cost of an order, and the precision of an amount, which
\* ccxt gives as a number of decimals (3) or as a step (0.001, 0.01).
ETHUSDT_Market ==
    [amount_min |-> <<1, 1000>>, cost_min |-> <<5, 1>>, precision |-> <<"3">>]

Markets ==
    {ETHUSDT_Market,
     [amount_min |-> <<1, 1000>>, cost_min |-> <<20, 1>>,
      precision |-> <<"0", ".", "0", "0", "1">>],
     [amount_min |-> <<1, 100>>, cost_min |-> <<5, 1>>,
      precision |-> <<"0", ".", "0", "1">>]}

\* The closing prices of the candles, the values min_position_value is
\* given and the balances of the account, in USDT.
ClosePrices == {<<7, 1>>, <<2000, 1>>, <<3000, 1>>}
MinPositionValues == {<<5, 1>>, <<10, 1>>, <<100, 1>>}
Balances == {<<0, 1>>, <<1, 1>>, <<100, 1>>}

MIN_NOTIONAL_SAFETY_FACTOR == <<3, 2>>
initial_margin_rate == <<1, 50>>
maintenance_margin_rate == <<1, 200>>

\* max(10.0, float(market['limits']['cost']['min']))
MinNotional(market) == RMax(<<10, 1>>, market.cost_min)

NoSizing ==
    [current_price |-> <<0, 1>>, raw |-> <<0, 1>>, precision |-> 0,
     target_qty |-> <<0, 1>>,
     position_value |-> <<0, 1>>, min_notional |-> <<0, 1>>,
     total_required_margin |-> <<0, 1>>]

\* What on_data has seen on the last candle: whether it has found a record
\* of the position, the value of the position at the close, the margin it
\* has asked for, and the balances get_available_balance has returned.
NoCandle ==
    [found |-> FALSE, position_value |-> <<0, 1>>,
     required_margin |-> <<0, 1>>, balances |-> <<>>]

NoFutures ==
    [state |-> "none", min_position_value |-> <<0, 1>>, sizing |-> NoSizing,
     candle |-> NoCandle]

\* The first part of _open_short: the quantity is the largest of what the
\* target value, the minimum notional and the smallest amount ask for,
\* rounded to the precision of the market; position_value is what that
\* quantity costs at the price, and the margin is 2% of it times the safety
\* factor plus 0.5% of it.
Sizing(min_position_value, market, current_price) ==
    LET min_notional == MinNotional(market)
        precision == PrecisionOf(market.precision)
        raw == RMax(RMax(RDiv(min_position_value, current_price),
                         RDiv(min_notional, current_price)),
                    market.amount_min)
        target_qty == Round(raw, precision)
        position_value == RMul(target_qty, current_price)
    IN  [current_price |-> current_price, raw |-> raw,
         precision |-> precision, target_qty |-> target_qty,
         position_value |-> position_value, min_notional |-> min_notional,
         total_required_margin |->
             RAdd(RMul(RMul(position_value, initial_margin_rate),
                       MIN_NOTIONAL_SAFETY_FACTOR),
                  RMul(position_value, maintenance_margin_rate))]

\* A check of the notional that lets every value pass.
NotionalOk_any(z) == TRUE

\* position_value < min_notional makes _open_short return.
NotionalOk(z) == ~RLess(z.position_value, z.min_notional)

\* What _open_short finds when it compares the balance with the margin.
BalanceFound(net, balance, z) ==
    IF net # "ok" THEN "transient"
    ELSE IF RLess(balance, z.total_required_margin) THEN "short"
    ELSE "enough"

\* A step of FuturesStrategy leaves the brokers of the other programs alone.
OfFuturesStrategy ==
    /\ broker = "ccxt"
    /\ UNCHANGED <<broker, exVars, brokerVars, submitVars, jbs, cxMarket,
                   cOrders, cPending, cBroker, cxMargin, acct>>

\* FuturesStrategy(broker, symbols, leverage, min_position_value): a value
\* below the minimum notional of a symbol raises ValueError; otherwise
\* _initialize_strategy asks get_position for each symbol, and an error of
\* that is logged and dropped.
FuturesStrategyInit(min_position_value, net, listed) ==
    /\ OfFuturesStrategy
    /\ Ready
    /\ fs = NoFutures
    /\ IF RLess(min_position_value, MinNotional(cxMarket))
       THEN /\ fs' = [fs EXCEPT !.state = "ValueError",
                                !.min_position_value = min_position_value]
            /\ call' = Raises("FuturesStrategy", <<>>, "ValueError")
            /\ UNCHANGED cPositions
       ELSE LET g == GetPositionRisk(cBroker, cPositions, cxOrders, net,
                                     listed)
            IN  /\ fs' = [fs EXCEPT !.state = "ready",
                                    !.min_position_value = min_position_value]
                /\ call' = Returns("FuturesStrategy", g.log, "strategy")
                /\ cPositions' = g.positions
    /\ UNCHANGED cxOrders

\* What the exchange does to the requests of one _open_short: whether it
\* answers the account request and with which balance, and its answers to
\* the transfer and to the order.  The call ends at the first request that
\* fails, so what is listed after it is never asked for.
SizedRuns ==
    {r \in [net : Net, balance : Balances, transfer : {"ok", "-4050"},
            ans : OrderAnswers(OrderType_MARKET)] :
        /\ r.net # "ok" => r.balance = <<0, 1>> /\ r.transfer = "ok"
        /\ (r.net # "ok" \/ r.transfer # "ok") => r.ans = "open"}

\* _open_short(symbol, current_price) with the quantity it computes: the
\* order it sends is of target_qty.
FuturesStrategyOpenShort(current_price, run) ==
    /\ OfFuturesStrategy
    /\ fs.state = "ready"
    /\ Len(cxOrders) < MaxLots
    /\ LET z == Sizing(fs.min_position_value, cxMarket, current_price)
           r == [bal |-> BalanceFound(run.net, run.balance, z),
                 notional_ok |-> NotionalOk(z),
                 transfer |-> run.transfer, ans |-> run.ans]
           c == OpenShort(cBroker, cxOrders, z.target_qty, r)
       IN  /\ fs' = [fs EXCEPT !.sizing = z]
           /\ cxOrders' = c.orders
           /\ call' = CallOf("_open_short", c)
    /\ UNCHANGED cPositions

\* The exchange fills an open order of the strategy.
SizedFill(id) ==
    /\ OfFuturesStrategy
    /\ id \in 1..Len(cxOrders)
    /\ cxOrders[id].status = "open"
    /\ cxOrders' = [cxOrders EXCEPT ![id].status = "closed"]
    /\ UNCHANGED <<cPositions, call, fs>>

(***************************************************************************)
(* FuturesStrategy.on_data: what the strategy does with one candle.  The   *)
(* amounts of the orders are the quantities _open_short computes, so the   *)
(* position on the exchange is a rational here.  No fill reaches the       *)
(* exchange while on_data runs.                                            *)
(***************************************************************************)
leverage == 50

\* The net amount of the symbol the account holds on the exchange: what its
\* filled orders have bought less what they have sold.
RECURSIVE NetAmount(_, _)
NetAmount(eos, n) ==
    IF n = 0 THEN <<0, 1>>
    ELSE RAdd(IF eos[n].status = "closed"
              THEN (IF eos[n].side = "BUY" THEN eos[n].amount
                    ELSE RNeg(eos[n].amount))
              ELSE <<0, 1>>,
              NetAmount(eos, n - 1))

\* The record of the symbol in the answer of fapiPrivateV2GetPositionRisk;
\* listed is whether the exchange lists a symbol without a position.
ExchangeRecord(eos, listed) ==
    LET amt == NetAmount(eos, Len(eos))
    IN  IF amt # <<0, 1>> \/ listed THEN PositionRecord(amt) ELSE None

\* get_position, given the record rec the exchange has for the symbol: the
\* record found is stored in positions and returned.  The outcome is
\* [positions, log, error, pos].
PositionRisk(b, pos, rec, net) ==
    IF b.default_type # "future"
    THEN [positions |-> pos, log |-> <<>>, error |-> "none", pos |-> None]
    ELSE IF net # "ok"
    THEN [positions |-> pos, log |-> <<Req("positionRisk", net)>>,
          error |-> net, pos |-> None]
    ELSE [positions |-> IF rec.found THEN [pos EXCEPT ![Symbol] = rec]
                        ELSE pos,
          log |-> <<Req("positionRisk", "ok")>>,
          error |-> "none",
          pos |-> rec]

\* close_position, given the record rec: get_position, and for an amount
\* other than zero create_order of a MARKET order of the absolute amount,
\* SELL for a positive amount and BUY for a negative one.  An error of
\* either call is raised again.
ClosePositionOf(b, pos, rec, eos, net, ans) ==
    LET g == PositionRisk(b, pos, rec, net)
        amt == g.pos.positionAmt
        c == CreateOrder(eos, IF amt[1] > 0 THEN "SELL" ELSE "BUY",
                         OrderType_MARKET, RAbs(amt), ans)
    IN  IF g.error # "none"
        THEN [positions |-> g.positions, orders |-> eos, log |-> g.log,
              error |-> g.error, ret |-> "none"]
        ELSE IF g.pos.found /\ amt # <<0, 1>>
        THEN [positions |-> g.positions, orders |-> c.orders,
              log |-> g.log \o c.log, error |-> c.error, ret |-> c.ret]
        ELSE [positions |-> g.positions, orders |-> eos, log |-> g.log,
              error |-> "none", ret |-> "None"]

\* get_available_balance with the balance it reads: the availableBalance of
\* USDT when the account request is answered, 0.0 when it fails.
AvailableBalance(b, net, balance) ==
    IF b.default_type # "future" THEN [log |-> <<>>, value |-> "None"]
    ELSE IF net # "ok"
    THEN [log |-> <<Req("account", net)>>, value |-> <<0, 1>>]
    ELSE [log |-> <<Req("account", "ok")>>, value |-> balance]

\* An except clause that passes the error on.
Caught_reraise(c) == c

\* except Exception as e: logger.error(...), in on_data and in
\* _close_position: the error goes to the log and the method returns None.
Caught(c) == [c EXCEPT !.error = "none", !.ret = "None"]

\* A test of the position value that sends every candle to _open_short.
OpensShort_always(position_value, min_position_value) == TRUE

\* if position_value < self.min_position_value
OpensShort(position_value, min_position_value) ==
    RLess(position_value, min_position_value)

\* A test of the balance that lets every balance pass.
MarginOk_any(available_balance, required_margin) == TRUE

\* if available_balance >= required_margin
MarginOk(available_balance, required_margin) ==
    ~RLess(available_balance, required_margin)

\* The closing prices of the candles on_data is given.
CandleCloses == {<<7, 1>>, <<2000, 1>>, <<30000, 1>>}

\* What the exchange does during one on_data: its answer to the position
\* request (net, listed), the candle's close, its answer to the account
\* request of on_data (net1, balance1), its answers to the requests of
\* _open_short (open) and to those of close_position (net2, ans2).  What
\* is listed after a request that fails is never asked for.
NotOpened ==
    [net |-> "transient", balance |-> <<0, 1>>, transfer |-> "ok",
     ans |-> "open"]

\* The balances the account request is answered with during a candle, and
\* the answers to an order request: it is taken, or refused for lack of
\* margin.
CandleBalances == {<<1, 1>>, <<100, 1>>}
CandleAnswers == {"open", "-2019"}

CandleRuns ==
    {r \in [net : Net, listed : BOOLEAN, close : CandleCloses, net1 : Net,
            balance1 : CandleBalances,
            open : {o \in SizedRuns :
                       \/ o = NotOpened
                       \/ (o.balance \in CandleBalances
                              /\ o.ans \in CandleAnswers)},
            net2 : Net, ans2 : CandleAnswers] :
        /\ r.net # "ok" =>
              /\ r.listed /\ r.close = <<7, 1>> /\ r.net1 = "ok"
              /\ r.balance1 = <<1, 1>> /\ r.open = NotOpened
              /\ r.net2 = "ok"
        /\ r.net1 # "ok" => r.balance1 = <<1, 1>>
        /\ r.open = NotOpened \/ (r.net2 = "ok" /\ r.ans2 = "open")
        /\ r.net2 # "ok" => r.ans2 = "open"}

\* The way on_data takes for the position record pos, the balance it has
\* read and the close of the candle: nothing without a record; for a value
\* below min_position_value, _open_short when the balance covers
\* min_position_value / leverage * 1.1 and round(min_position_value /
\* close, 3) is above zero, and nothing otherwise; for any other value
\* _close_position.
RequiredMargin(f) == RMul(RDivInt(f.min_position_value, leverage), <<11, 10>>)

OnDataBranch(f, pos, available_balance, close) ==
    IF ~pos.found THEN "none"
    ELSE IF OpensShort(RAbs(RMul(pos.positionAmt, close)),
                       f.min_position_value)
    THEN IF MarginOk(available_balance, RequiredMargin(f))
            /\ RLess(<<0, 1>>, Round(RDiv(f.min_position_value, close), 3))
         THEN "open"
         ELSE "hold"
    ELSE "close"

\* The requests of _open_short for the candle of run, as OpenShort takes
\* them.
OpenShortRun(z, run) ==
    [bal |-> BalanceFound(run.open.net, run.open.balance, z),
     notional_ok |-> NotionalOk(z),
     transfer |-> run.open.transfer,
     ans |-> run.open.ans]

\* on_data(symbol, data) of the strategy f: get_position,
\* get_available_balance, and then the way OnDataBranch gives.  An error
\* of get_position or of _open_short is caught by on_data, one of
\* close_position by _close_position.  The outcome is
\* [positions, orders, log, error, ret, sizing, candle].
OnData(b, pos, eos, f, market, run) ==
    LET rec == ExchangeRecord(eos, run.listed)
        g == PositionRisk(b, pos, rec, run.net)
        a == AvailableBalance(b, run.net1, run.balance1)
        z == Sizing(f.min_position_value, market, run.close)
        o == OpenShort(b, eos, z.target_qty, OpenShortRun(z, run))
        second == IF run.open.net = "ok" THEN run.open.balance ELSE <<0, 1>>
        c == Caught(ClosePositionOf(b, g.positions, rec, eos, run.net2,
                                    run.ans2))
        none == [positions |-> g.positions, orders |-> eos, log |-> g.log,
                 error |-> "none", ret |-> "None", sizing |-> f.sizing,
                 candle |-> NoCandle]
        held == [none EXCEPT
                    !.log = g.log \o a.log,
                    !.candle =
                        [found |-> TRUE,
                         position_value |->
                             RAbs(RMul(g.pos.positionAmt, run.close)),
                         required_margin |-> RequiredMargin(f),
                         balances |-> <<a.value>>]]
        branch == OnDataBranch(f, g.pos, a.value, run.close)
    IN  IF g.error # "none"
        THEN Caught([none EXCEPT !.error = g.error, !.ret = "none"])
        ELSE IF branch = "none" THEN none
        ELSE IF branch = "hold" THEN held
        ELSE IF branch = "open"
        THEN Caught([held EXCEPT
                        !.orders = o.orders,
                        !.log = g.log \o a.log \o o.log,
                        !.error = o.error,
                        !.ret = o.ret,
                        !.sizing = z,
                        !.candle.balances = <<a.value, second>>])
        ELSE [held EXCEPT
                !.positions = c.positions,
                !.orders = c.orders,
                !.log = g.log \o a.log \o c.log,
                !.error = c.error]

\* Of the runs that differ only in answers to requests on_data does not
\* make, one is kept: amt is the net amount on the exchange.
Asked(b, amt, f, run) ==
    \E branch \in {IF run.net # "ok" \/ (amt = <<0, 1>> /\ ~run.listed)
                   THEN "none"
                   ELSE OnDataBranch(f, PositionRecord(amt),
                                     AvailableBalance(b, run.net1,
                                                      run.balance1).value,
                                     run.close)} :
        /\ amt # <<0, 1>> => run.listed
        /\ branch = "none" =>
              /\ run.close = <<7, 1>> /\ run.net1 = "ok"
              /\ run.balance1 = <<1, 1>>
        /\ branch # "open" => run.open = NotOpened
        /\ branch # "close" => (run.net2 = "ok" /\ run.ans2 = "open")

\* The run loop hands a new candle of the symbol to on_data.
FuturesStrategyOnData ==
    /\ OfFuturesStrategy
    /\ fs.state = "ready"
    /\ Len(cxOrders) < MaxLots
    /\ \E amt \in {NetAmount(cxOrders, Len(cxOrders))} :
       \E run \in CandleRuns :
           /\ Asked(cBroker, amt, fs, run)
           /\ \E d \in {OnData(cBroker, cPositions, cxOrders, fs, cxMarket,
                               run)} :
                  /\ fs' = [fs EXCEPT !.sizing = d.sizing,
                                      !.candle = d.candle]
                  /\ cxOrders' = d.orders
                  /\ cPositions' = d.positions
                  /\ call' = CallOf("on_data", d)

(***************************************************************************)
(* JustBuySellStrategy (src/StrategyExamplesBinance/01-LiveTrade-futures.py)*)
(* with one data feed, that of Symbol.  jbs.orders is self.orders of the   *)
(* ticker: None, an order that has neither completed nor failed ("order"), *)
(* or one that has completed; jbs.submitted lists the orders the strategy  *)
(* has handed to its broker with buy, sell and close; jbs.slept lists the  *)
(* attempts of the last get_position_info after which the thread slept.    *)
(***************************************************************************)
max_retries == 3

\* What the exchange does with a leverage or position request of the
\* example: it answers, the request fails in transit, or it refuses the
\* request (-4028: the leverage is not valid; -2015: the API key has no
\* permission).
LeverageAnswers == {"ok", "transient", "-4028"}
PositionAnswers == {"ok", "transient", "-2015"}

\* __init__: self.orders of the ticker is None, then fapiPrivatePostLeverage
\* for the data feed; an error of the request is printed and passed over.
JBSInit(lev) ==
    /\ OfExample
    /\ jbs = NoStrategy
    /\ jbs' = [state |-> "running",
               leverage |-> IF lev = "ok" THEN "set" ELSE "failed",
               orders |-> "None",
               submitted |-> <<>>,
               slept |-> <<>>]
    /\ call' = Returns("__init__", <<SymReq("leverage", Symbol, lev)>>,
                        "strategy")

\* get_position_info from attempt on: fapiPrivateV2GetPositionRisk up to
\* max_retries times; the first answer that comes is returned, any error is
\* printed and followed by a sleep and the next attempt, and the error of
\* the last attempt is raised at once.  answers[k] is what becomes of the
\* k-th request.  The outcome is [log, error, found, slept].
RECURSIVE GetPositionInfo_swallow(_, _, _)
GetPositionInfo_swallow(answers, attempt, log) ==
    LET ans == answers[attempt + 1]
        log1 == Append(log, Req("positionRisk", ans))
    IN  IF attempt >= max_retries
        THEN [log |-> log, error |-> "none", found |-> FALSE, slept |-> <<>>]
        ELSE IF ans = "ok"
        THEN [log |-> log1, error |-> "none", found |-> TRUE, slept |-> <<>>]
        ELSE [GetPositionInfo_swallow(answers, attempt + 1, log1)
                EXCEPT !.slept = <<attempt + 1>> \o @]

RECURSIVE GetPositionInfo(_, _, _)
GetPositionInfo(answers, attempt, log) ==
    LET ans == answers[attempt + 1]
        log1 == Append(log, Req("positionRisk", ans))
    IN  IF attempt >= max_retries
        THEN [log |-> log, error |-> "none", found |-> FALSE, slept |-> <<>>]
        ELSE IF ans = "ok"
        THEN [log |-> log1, error |-> "none", found |-> TRUE, slept |-> <<>>]
        ELSE IF attempt = max_retries - 1
        THEN [log |-> log1, error |-> ans, found |-> FALSE, slept |-> <<>>]
        ELSE [GetPositionInfo(answers, attempt + 1, log1)
                EXCEPT !.slept = <<attempt + 1>> \o @]

\* What one call of get_position_info meets: the answers to its requests
\* and, when one comes, what the list holds for the ticker (pos).
PositionRuns ==
    {r \in [answers : [1..max_retries -> PositionAnswers],
            pos : {"None", "held"}] :
        /\ \A k \in 1..max_retries :
              r.answers[k] = "ok"
              => \A j \in 1..max_retries : j > k => r.answers[j] = "ok"
        /\ (\A k \in 1..max_retries : r.answers[k] # "ok") => r.pos = "None"}

\* get_position_info(exchange, ticker), called on its own.
JBSGetPositionInfo(r) ==
    /\ OfExample
    /\ jbs.state = "running"
    /\ LET g == GetPositionInfo(r.answers, 0, <<>>)
       IN  /\ jbs' = [jbs EXCEPT !.slept = g.slept]
           /\ call' = IF g.error # "none"
                      THEN Raises("get_position_info", g.log, g.error)
                      ELSE Returns("get_position_info", g.log,
                                   IF g.found THEN r.pos ELSE "None")

\* The inputs of one next() on a live bar: the answers to the position
\* requests, the record found for the ticker (pos: None, an amount of zero,
\* one below 0.001, or a held position), whether its ROI is beyond the
\* thresholds (roi), whether the broker's own position is other than zero,
\* so that close gives an order (ledger), the answer to the account
\* request, whether quantity x price reaches 10 (notional_ok), and the side
\* the last two closes decide.  What is never looked at has one value.
NextRuns ==
    {r \in [answers : [1..max_retries -> PositionAnswers],
            pos : {"None", "zero", "tiny", "held"},
            roi : BOOLEAN, ledger : BOOLEAN,
            account : {"ok", "transient"},
            notional_ok : BOOLEAN,
            side : {"buy", "sell"}] :
        LET got == \E k \in 1..max_retries : r.answers[k] = "ok"
            sized == got /\ r.pos \in {"tiny", "held"}
            opens == got /\ r.pos \in {"zero", "tiny"}
        IN  /\ \A k \in 1..max_retries :
                  r.answers[k] = "ok"
                  => \A j \in 1..max_retries : j > k => r.answers[j] = "ok"
            /\ ~got => r.pos = "None"
            /\ ~sized => ~r.roi
            /\ ~r.roi => ~r.ledger
            /\ ~opens => r.account = "ok"
            /\ (~opens \/ r.account # "ok") => ~r.notional_ok
            /\ ~r.notional_ok => r.side = "buy"}

\* next() on a live bar of the ticker: get_position_info, and nothing more
\* when it gives None; for an amount other than zero whose ROI is beyond
\* the thresholds, close, whose result goes to self.orders; for an amount
\* below 0.001, fapiPrivateGetAccount and, when the value reaches 10, buy or
\* sell, whose order goes to self.orders.  Every error is printed and ends
\* the bar.  The outcome is [log, orders, submitted].
StrategyNext(j, r) ==
    LET g == GetPositionInfo(r.answers, 0, <<>>)
        closes == r.pos \in {"tiny", "held"} /\ r.roi
        j1 == IF closes
              THEN [j EXCEPT !.orders = IF r.ledger THEN "order" ELSE "None",
                             !.submitted = IF r.ledger
                                           THEN Append(@, "close") ELSE @]
              ELSE j
        opens == r.pos \in {"zero", "tiny"}
        j2 == IF opens /\ r.account = "ok" /\ r.notional_ok
              THEN [j1 EXCEPT !.orders = "order",
                              !.submitted = Append(@, r.side)]
              ELSE j1
    IN  IF g.error # "none" \/ r.pos = "None"
        THEN [log |-> g.log, strategy |-> [j EXCEPT !.slept = g.slept]]
        ELSE [log |-> IF opens
                      THEN Append(g.log, Req("account", r.account))
                      ELSE g.log,
              strategy |-> [j2 EXCEPT !.slept = g.slept]]

JBSNext(r) ==
    /\ OfExample
    /\ jbs.state = "running"
    /\ LET n == StrategyNext(jbs, r)
       IN  /\ Len(n.strategy.submitted) <= MaxLots
           /\ jbs' = n.strategy
           /\ call' = Returns("next", n.log, "None")

\* The order the strategy holds in self.orders is done with: notify_order
\* is told that it has failed, and handle_order_failure sets self.orders of
\* the ticker to None.
JBSOrderFailed ==
    /\ OfExample
    /\ jbs.orders = "order"
    /\ jbs' = [jbs EXCEPT !.orders = "None"]
    /\ UNCHANGED call

\* The order the strategy holds in self.orders is filled: notify_order is
\* told that it is Completed, and handle_order_completion adds one to
\* self.daily_trades, which nothing has set: AttributeError, which ends the
\* run.  self.orders still holds the order.
JBSOrderCompleted ==
    /\ OfExample
    /\ jbs.state = "running"
    /\ jbs.orders = "order"
    /\ jbs' = [jbs EXCEPT !.orders = "completed", !.state = "AttributeError"]
    /\ call' = Raises("notify_order", <<>>, "AttributeError")

InitExample ==
    /\ exOrders = <<>>
    /\ stream = <<>>
    /\ lastMsg = NoMsg
    /\ lastDup = FALSE
    /\ lastKnown = FALSE
    /\ listener = "listening"
    /\ ords = <<>>
    /\ orders = <<>>
    /\ open_orders = <<>>
    /\ positions = [s \in {DataName, DataDataname} |-> ZeroPos]
    /\ notifs = <<>>
    /\ pc = "idle"
    /\ resp = NoResp
    /\ posClone = NoPos
    /\ broker = "example"
    /\ cxOrders = <<>>
    /\ cOrders = <<>>
    /\ cPending = <<>>
    /\ cPositions = NoPositions
    /\ cBroker = NoBroker
    /\ cxMargin = [sym \in StoreSymbolSet |-> "CROSS"]
    /\ call = NoCall
    /\ jbs = NoStrategy
    /\ cxMarket = ETHUSDT_Market
    /\ fs = NoFutures
    /\ acct = StoreAccount

NextExample ==
    \/ \E lev \in LeverageAnswers : JBSInit(lev)
    \/ \E r \in NextRuns : JBSNext(r)
    \/ \E r \in PositionRuns : JBSGetPositionInfo(r)
    \/ JBSOrderFailed
    \/ JBSOrderCompleted

SpecExample == InitExample /\ [][NextExample]_vars

\* The broker object run_futures_strategy.py constructs.
RunBroker ==
    [state |-> "ready", margin_mode |-> "isolated", default_type |-> "future"]

\* The state after the construction of the broker: BinanceBroker in one
\* run, CCXTBroker as run_futures_strategy.py constructs it in the other.
Init ==
    /\ exOrders = <<>>
    /\ stream = <<>>
    /\ lastMsg = NoMsg
    /\ lastDup = FALSE
    /\ lastKnown = FALSE
    /\ listener = "listening"
    /\ ords = <<>>
    /\ orders = <<>>
    /\ open_orders = <<>>
    /\ positions = [s \in {DataName, DataDataname} |-> ZeroPos]
    /\ notifs = <<>>
    /\ pc = "idle"
    /\ resp = NoResp
    /\ posClone = NoPos
    /\ broker \in {"binance", "ccxt"}
    /\ cxOrders = <<>>
    /\ cOrders = <<>>
    /\ cPending = <<>>
    /\ cPositions = NoPositions
    /\ cBroker = IF broker = "ccxt" THEN RunBroker ELSE NoBroker
    /\ cxMargin = [sym \in StoreSymbolSet |->
                     IF broker = "ccxt" THEN "ISOLATED" ELSE "CROSS"]
    /\ call = NoCall
    /\ jbs = NoStrategy
    /\ cxMarket = ETHUSDT_Market
    /\ fs = NoFutures
    /\ acct = StoreAccount

Next ==
    \/ \E side \in Sides, size \in 1..MaxLots :
          \E k \in {1, size} : SubmitCreate(side, Market, size, 0, k)
    \/ \E side \in Sides, size \in 1..MaxLots :
          SubmitCreate(side, Limit, size, BookNext, size)
    \/ \E ok \in BOOLEAN : SubmitBuild(ok, BookFirst)
    \/ SubmitLedger
    \/ \E r \in 1..MaxLots : Cancel(r)
    \/ GetNotification
    \/ \E i \in 1..MaxLots, q \in 1..MaxLots : ExchangeFill(i, q)
    \/ StreamDeliver
    \/ StreamRedeliver
    \/ \E side \in Sides \cup {"HOLD"},
          type \in {OrderType_MARKET, OrderType_LIMIT},
          amount \in 1..MaxLots, ans \in Answers :
          CCXTCreateOrder(side, type, amount, ans)
    \/ \E id \in 1..MaxLots, net \in Net : CCXTCancelOrder(id, net)
    \/ \E id \in 1..MaxLots, net \in Net : CCXTGetOrder(id, net)
    \/ CCXTUpdatePendingOrders
    \/ \E id \in 1..MaxLots : FuturesFill(id)

Spec == Init /\ [][Next]_vars

(***************************************************************************)
(* BinanceBroker on a user socket that carries more than the reports of    *)
(* the broker's orders.                                                    *)
(***************************************************************************)
InitStream == Init /\ broker = "binance"

NextStream ==
    \/ \E side \in Sides, size \in 1..MaxLots :
          \E k \in {1, size} : SubmitCreate(side, Market, size, 0, k)
    \/ \E side \in Sides, size \in 1..MaxLots :
          SubmitCreate(side, Limit, size, BookNext, size)
    \/ \E ok \in BOOLEAN : SubmitBuild(ok, BookFirst)
    \/ SubmitLedger
    \/ \E i \in 1..MaxLots, q \in 1..MaxLots : ExchangeFill(i, q)
    \/ StreamDeliver
    \/ \E msg \in Anomalies \cup {ErrorMessage} : StreamPush(msg)

SpecStream == InitStream /\ [][NextStream]_vars

(***************************************************************************)
(* BinanceBroker with MARKET orders only, which the exchange fills at      *)
(* once: the runs in which the ledger gets every fill from _submit, with   *)
(* the cash of the account.                                                *)
(***************************************************************************)
InitLedger == Init /\ broker = "binance"

NextLedger ==
    \/ \E side \in Sides, size \in 1..MaxLedgerLots :
          \E k \in {1, size} :
             SubmitCreateWithin(MaxLedgerLots, side, Market, size, 0, k)
    \/ \E ok \in BOOLEAN : SubmitBuild(ok, BookFirst)
    \/ SubmitLedger
    \/ StreamDeliver
    \/ \E b \in FreeBalances : ExchangeBalance(b)
    \/ StoreGetBalance
    \/ GetCash

SpecLedger == InitLedger /\ [][NextLedger]_vars

(***************************************************************************)
(* The two places that give an order its status, each on its own: the      *)
(* constructor of BinanceOrder for a response of any status, and           *)
(* _set_order_status for any status on the order so built.                 *)
(***************************************************************************)
InitStatus == Init /\ broker = "binance"

NextStatus ==
    \/ \E side \in Sides, st \in ExchangeStatuses : NewBinanceOrder(side, st)
    \/ \E r \in 1..MaxLots, X \in ExchangeStatuses : SetOrderStatusCall(r, X)

SpecStatus == InitStatus /\ [][NextStatus]_vars

(***************************************************************************)
(* FuturesStrategy with the sizes of its orders: the broker is the one     *)
(* run_futures_strategy.py constructs, the market is one the exchange may  *)
(* have, and the strategy is constructed and opens short positions.        *)
(***************************************************************************)
InitSizing ==
    /\ exOrders = <<>>
    /\ stream = <<>>
    /\ lastMsg = NoMsg
    /\ lastDup = FALSE
    /\ lastKnown = FALSE
    /\ listener = "listening"
    /\ ords = <<>>
    /\ orders = <<>>
    /\ open_orders = <<>>
    /\ positions = [s \in {DataName, DataDataname} |-> ZeroPos]
    /\ notifs = <<>>
    /\ pc = "idle"
    /\ resp = NoResp
    /\ posClone = NoPos
    /\ broker = "ccxt"
    /\ cxOrders = <<>>
    /\ cOrders = <<>>
    /\ cPending = <<>>
    /\ cPositions = NoPositions
    /\ cBroker = RunBroker
    /\ cxMargin = [sym \in StoreSymbolSet |-> "ISOLATED"]
    /\ call = NoCall
    /\ jbs = NoStrategy
    /\ cxMarket \in Markets
    /\ fs = NoFutures
    /\ acct = StoreAccount

NextSizing ==
    \/ \E min_position_value \in MinPositionValues, net \in Net,
          listed \in BOOLEAN :
          FuturesStrategyInit(min_position_value, net, listed)
    \/ \E current_price \in ClosePrices, run \in SizedRuns :
          FuturesStrategyOpenShort(current_price, run)
    \/ \E id \in 1..MaxLots : SizedFill(id)

SpecSizing == InitSizing /\ [][NextSizing]_vars

(***************************************************************************)
(* FuturesStrategy under the run loop of run_futures_strategy.py: the      *)
(* strategy is constructed, every new candle goes to on_data, and the      *)
(* exchange fills the orders that are open.                                *)
(***************************************************************************)
InitCandle == InitSizing /\ cxMarket = ETHUSDT_Market

NextCandle ==
    \/ \E min_position_value \in MinPositionValues, net \in Net,
          listed \in BOOLEAN :
          FuturesStrategyInit(min_position_value, net, listed)
    \/ FuturesStrategyOnData
    \/ \E id \in 1..MaxLots : SizedFill(id)

SpecCandle == InitCandle /\ [][NextCandle]_vars

(***************************************************************************)
(* The futures program from its start: the construction of CCXTBroker, its *)
(* methods, the strategy on top of it, and the futures exchange.           *)
(***************************************************************************)
InitFutures ==
    /\ exOrders = <<>>
    /\ stream = <<>>
    /\ lastMsg = NoMsg
    /\ lastDup = FALSE
    /\ lastKnown = FALSE
    /\ listener = "listening"
    /\ ords = <<>>
    /\ orders = <<>>
    /\ open_orders = <<>>
    /\ positions = [s \in {DataName, DataDataname} |-> ZeroPos]
    /\ notifs = <<>>
    /\ pc = "idle"
    /\ resp = NoResp
    /\ posClone = NoPos
    /\ broker = "ccxt"
    /\ cxOrders = <<>>
    /\ cOrders = <<>>
    /\ cPending = <<>>
    /\ cPositions = NoPositions
    /\ cBroker = NoBroker
    /\ cxMargin = [sym \in StoreSymbolSet |-> "CROSS"]
    /\ call = NoCall
    /\ jbs = NoStrategy
    /\ cxMarket = ETHUSDT_Market
    /\ fs = NoFutures
    /\ acct = StoreAccount

NextFutures ==
    \/ \E mode \in MarginModes, default_type \in DefaultTypes,
          markets \in Net, answers \in SetupRuns :
          CCXTBrokerInit(mode, default_type, markets, answers)
    \/ Restart
    \/ \E side \in Sides \cup {"HOLD"},
          type \in {OrderType_MARKET, OrderType_LIMIT},
          amount \in 1..MaxLots, ans \in Answers :
          CCXTCreateOrder(side, type, amount, ans)
    \/ \E id \in 1..MaxLots, net \in Net : CCXTCancelOrder(id, net)
    \/ \E id \in 1..MaxLots, net \in Net : CCXTGetOrder(id, net)
    \/ CCXTUpdatePendingOrders
    \/ \E net \in Net, listed \in BOOLEAN : CCXTGetPosition(net, listed)
    \/ \E net \in Net, listed \in BOOLEAN, ans \in Answers :
          CCXTClosePosition(net, listed, ans)
    \/ \E amount \in 1..MaxLots, r \in OpenShortRuns :
          FuturesOpenShort(amount, r)
    \/ \E id \in 1..MaxLots : FuturesFill(id)

SpecFutures == InitFutures /\ [][NextFutures]_vars


(***************************************************************************)
(* Vocabulary of the properties.                                           *)
(***************************************************************************)
InOpenOrders(r) == \E k \in 1..Len(open_orders) : open_orders[k] = r

InFlight(t) == \E k \in 1..Len(stream) : stream[k].t = t

RECURSIVE DeliveredTrades(_)
DeliveredTrades(ts) ==
    IF ts = <<>> THEN <<>>
    ELSE IF InFlight(ts[1].t) THEN DeliveredTrades(Tail(ts))
    ELSE <<ts[1]>> \o DeliveredTrades(Tail(ts))

\* The lots of exchange order i whose trade report the handler has had.
DeliveredQty(i) == TradesQty(DeliveredTrades(exOrders[i].trades))
DeliveredQuote(i) == TradesQuote(DeliveredTrades(exOrders[i].trades))

IsFill(m) == m.e = "executionReport" /\ m.X \in {"FILLED", "PARTIALLY_FILLED"}

Signed(side, q) == IF side = "BUY" THEN q ELSE -q

RECURSIVE NetFilled(_, _)
NetFilled(eos, n) ==
    IF n = 0 THEN 0
    ELSE Signed(eos[n].side, TradesQty(eos[n].trades)) + NetFilled(eos, n - 1)

\* Nothing is under way: _submit has returned and the stream is drained.
Quiescent == pc = "idle" /\ stream = <<>>

\* This step is the handler taking the next report off the stream.
Delivering == stream # <<>> /\ stream' = Tail(stream) /\ lastMsg' = Head(stream)

\* This step is the handler being given the last report once more.
Redelivering ==
    /\ lastMsg # NoMsg /\ lastMsg' = lastMsg /\ lastDup'
    /\ stream' = stream /\ exOrders' = exOrders /\ pc' = pc

\* This step is _submit recording the order of the response it holds.
Registering == pc = "created" /\ pc' # "created"

\* This step is _submit returning from the ledger update of a filled order.
ReturningFilled == pc = "ledger" /\ pc' = "idle"

(***************************************************************************)
(* C1: a fill report that reaches the handler before _submit has recorded  *)
(* the order is not lost: once the REST response records the order, the    *)
(* order's executed size and the ledger hold the fills already reported,   *)
(* as they would had the response come first.                              *)
(***************************************************************************)
C1_EarlyFillKept ==
    [][(Registering /\ resp.status = "NEW" /\ DeliveredQty(resp.orderId) > 0)
        => /\ Abs(ords'[Len(ords')].executed.size) = DeliveredQty(resp.orderId)
           /\ positions'[DataDataname].size =
                positions[DataDataname].size
                + Signed(resp.side, DeliveredQty(resp.orderId))]_vars

(***************************************************************************)
(* C2: a fill is applied once per trade id: the first report of a trade of *)
(* a recorded order adds its last-filled quantity to the order and to the  *)
(* ledger, and the same report handed over again changes neither.          *)
(***************************************************************************)
C2_FillOncePerTradeId ==
    [][\A r \in 1..Len(ords) :
        /\ (Delivering /\ IsFill(Head(stream))
              /\ ords[r].orderId = Head(stream).i /\ ords[r].info_status = "NEW")
           => /\ ords'[r].executed.size =
                   ords[r].executed.size + Head(stream).l
              /\ positions'[DataDataname].size =
                   positions[DataDataname].size
                   + CopySign(Head(stream).l, ords[r].size)
        /\ (Redelivering /\ IsFill(lastMsg) /\ ords[r].orderId = lastMsg.i)
           => /\ ords'[r].executed = ords[r].executed
              /\ positions' = positions]_vars

(***************************************************************************)
(* C3: no fill is lost or applied twice over the two channels: when        *)
(* nothing is under way, the ledger holds exactly the signed quantity the  *)
(* exchange has filled.                                                    *)
(***************************************************************************)
C3_LedgerEqualsFills ==
    Quiescent =>
        positions[DataDataname].size = NetFilled(exOrders, Len(exOrders))

(***************************************************************************)
(* C4: an order placed by _submit whose exchange status is not terminal is *)
(* afterwards in open_orders, where the handler looks orders up, and an    *)
(* order placed by CCXTBroker.create_order that is open on the exchange is *)
(* in orders and in _pending_orders.                                       *)
(***************************************************************************)
InPending(id) == \E k \in 1..Len(cPending) : cPending[k] = id

C4_PlacedOrderRegistered ==
    /\ \A r \in 1..Len(ords) :
          (ords[r].info_status \in {"NEW", "PARTIALLY_FILLED"}
              /\ ~Terminal(ords[r].status))
          => InOpenOrders(r)
    /\ \A id \in 1..Len(cxOrders) :
          cxOrders[id].status = "open"
          => id \in DOMAIN cOrders /\ InPending(id)

(***************************************************************************)
(* C5: an order leaves open_orders only in a terminal state: once the      *)
(* handler has had the NEW report of a recorded order, the order, still    *)
(* not terminal, is in open_orders and its fills still reach it.           *)
(***************************************************************************)
C5_NonTerminalStaysOpen ==
    \A r \in 1..Len(ords) :
        (~Terminal(ords[r].status)
            /\ lastKnown /\ lastMsg.i = ords[r].orderId
            /\ lastMsg.X \in {"NEW", "PARTIALLY_FILLED"})
        => /\ InOpenOrders(r)
           /\ Abs(ords[r].executed.size) = DeliveredQty(ords[r].orderId)

(***************************************************************************)
(* C6: terminal states are absorbing: no step changes the status or the    *)
(* executed size of an order that is Completed, Canceled, Rejected or      *)
(* Expired, and a report handled for such an order leaves the ledger as it *)
(* is; no step of CCXTBroker changes the status of an order it holds as    *)
(* closed, canceled, rejected or expired.                                  *)
(***************************************************************************)
C6_TerminalAbsorbing ==
    [][/\ \A r \in 1..Len(ords) :
            Terminal(ords[r].status)
            => /\ ords'[r].status = ords[r].status
               /\ ords'[r].executed = ords[r].executed
               /\ ((Delivering /\ Head(stream).i = ords[r].orderId)
                     => positions' = positions)
               /\ ((Redelivering /\ lastMsg.i = ords[r].orderId)
                     => positions' = positions)
       /\ \A id \in DOMAIN cOrders :
            cOrders[id].status \in {"closed", "canceled", "rejected", "expired"}
            => cOrders'[id].status = cOrders[id].status]_vars

\* A FILLED report has been handled, more than once, for an order that
\* _submit had already recorded as Completed.
C6_Witness ==
    \E r \in 1..Len(ords) :
        /\ ords[r].status = Completed
        /\ pc = "idle"
        /\ lastKnown /\ lastDup
        /\ lastMsg.i = ords[r].orderId /\ lastMsg.X = "FILLED"

(***************************************************************************)
(* C7: the executed size of an order never exceeds its requested size,     *)
(* whatever reports the stream delivers, repeated ones included.           *)
(***************************************************************************)
C7_ExecutedWithinRequested ==
    \A r \in 1..Len(ords) :
        Abs(ords[r].executed.size) <= exOrders[ords[r].orderId].origQty

\* A fill report has been handled twice for a recorded order that has an
\* executed size.
C7_Witness ==
    \E r \in 1..Len(ords) :
        /\ ords[r].executed.size # 0
        /\ lastKnown /\ lastDup
        /\ lastMsg.i = ords[r].orderId /\ IsFill(lastMsg)

(***************************************************************************)
(* C8: when the REST response is FILLED, on return from _submit the ledger *)
(* entry has moved by the signed order size, whatever it held before.      *)
(***************************************************************************)
C8_InstantFillInLedger ==
    [][ReturningFilled
        => /\ ords[Len(ords)].status = Completed
           /\ positions'[DataDataname].size =
                positions[DataDataname].size + ords[Len(ords)].size]_vars

(***************************************************************************)
(* C9: the ledger updates of the two threads are serialized: after a fill  *)
(* applied by the handler (a resting order) and a fill applied by _submit  *)
(* (an order filled at once), the ledger entry is what applying the two    *)
(* fills one after the other, in one order or the other, gives.            *)
(***************************************************************************)
FillOf(eo) ==
    [size |-> Signed(eo.side, TradesQty(eo.trades)),
     price |-> Rat(TradesQuote(eo.trades), TradesQty(eo.trades))]

Serial(f, g) ==
    PositionUpdate(PositionUpdate(ZeroPos, f.size, f.price), g.size, g.price)

C9_SerializedLedger ==
    (Quiescent /\ Len(exOrders) = 2
        /\ {exOrders[1].type, exOrders[2].type} = {"LIMIT", "MARKET"}
        /\ exOrders[1].status = "FILLED" /\ exOrders[2].status = "FILLED")
    => positions[DataDataname] \in
          {Serial(FillOf(exOrders[1]), FillOf(exOrders[2])),
           Serial(FillOf(exOrders[2]), FillOf(exOrders[1]))}

(***************************************************************************)
(* C10: after the fill reports of a recorded order, its executed size is   *)
(* the sum of their last-filled quantities and its executed price is the   *)
(* sum of quantity x price over that size.                                 *)
(***************************************************************************)
C10_ExecutedIsSumOfFills ==
    \A r \in 1..Len(ords) :
        (ords[r].info_status = "NEW" /\ Quiescent
            /\ DeliveredQty(ords[r].orderId) > 0)
        => /\ ords[r].executed.size = DeliveredQty(ords[r].orderId)
           /\ ords[r].executed.price =
                Rat(DeliveredQuote(ords[r].orderId),
                    DeliveredQty(ords[r].orderId))

(***************************************************************************)
(* C11: cancel does not by itself mark the order canceled.  The status of  *)
(* an order BinanceBroker holds changes only in a step in which the        *)
(* handler is given a report of that order, and the status CCXTBroker      *)
(* holds changes only to the status the exchange has answered for that     *)
(* order in that step; a cancel_order whose request fails changes no       *)
(* status.                                                                 *)
(***************************************************************************)
C11_CancelDoesNotMark ==
    [][/\ \A r \in 1..Len(ords) :
            ords'[r].status # ords[r].status
            => /\ Delivering \/ Redelivering
               /\ lastMsg'.i = ords[r].orderId
       /\ \A id \in DOMAIN cOrders :
            cOrders'[id].status # cOrders[id].status
            => /\ cOrders'[id].status = cxOrders'[id].status
               /\ ~Raised(call')
       /\ (call'.op = "cancel_order" /\ Raised(call') /\ call' # call)
            => cOrders' = cOrders /\ cxOrders' = cxOrders]_vars

\* The exchange has canceled an order on a cancel request and its report has
\* not reached the handler: the order is still Submitted for the broker.
C11_Witness ==
    \E r \in 1..Len(ords) :
        /\ exOrders[ords[r].orderId].status = "CANCELED"
        /\ ords[r].status = Submitted
        /\ \E k \in 1..Len(stream) :
              stream[k].i = ords[r].orderId /\ stream[k].X = "CANCELED"

(***************************************************************************)
(* C12: a cancel of an order that is no longer open is a success that      *)
(* changes nothing: when the exchange has refused the cancel request       *)
(* because the order is not open (-2011), cancel_order has returned        *)
(* without an error.                                                       *)
(***************************************************************************)
C12_CancelTerminalSucceeds ==
    (call.op = "cancel_order" /\ call.log = <<Req("cancel_order", "-2011")>>)
    => ~Raised(call)

(***************************************************************************)
(* C13: close_position decides on the position it reads in that call.  If  *)
(* it reads no record or a positionAmt of zero it returns None and places  *)
(* no order; otherwise, unless a request fails, it places exactly one      *)
(* MARKET order, SELL for a positive amount and BUY for a negative one, of *)
(* the absolute amount.                                                    *)
(***************************************************************************)
\* This step is a call of op.
Calling(op) ==
    call'.op = op /\ (call' # call \/ Len(cxOrders') # Len(cxOrders))

C13_ClosePosition ==
    [][Calling("close_position") =>
        LET amt == PositionAmt(cxOrders, Len(cxOrders))
            n == Len(cxOrders)
            read == /\ call'.log # <<>>
                    /\ call'.log[1] = Req("positionRisk", "ok")
        IN  IF Raised(call') THEN cxOrders' = cxOrders
            ELSE IF read /\ amt # 0
            THEN /\ Len(cxOrders') = n + 1
                 /\ SubSeq(cxOrders', 1, n) = cxOrders
                 /\ cxOrders'[n + 1].type = "MARKET"
                 /\ cxOrders'[n + 1].side = (IF amt > 0 THEN "SELL" ELSE "BUY")
                 /\ cxOrders'[n + 1].amount = Abs(amt)
                 /\ call'.ret = "order"
            ELSE cxOrders' = cxOrders /\ call'.ret = "None"]_vars

\* close_position has closed a long position: the order it has placed is
\* the last one of the exchange, and the orders filled before add up to a
\* positive amount.
C13_Witness ==
    /\ call.op = "close_position" /\ call.ret = "order"
    /\ Len(cxOrders) > 1
    /\ PositionAmt(cxOrders, Len(cxOrders) - 1) > 0
    /\ cxOrders[Len(cxOrders)].side = "SELL"
    /\ cxOrders[Len(cxOrders)].type = "MARKET"
    /\ cxOrders[Len(cxOrders)].amount
         = PositionAmt(cxOrders, Len(cxOrders) - 1)

(***************************************************************************)
(* C14: setting the margin mode a symbol already has is a success: a       *)
(* construction of the broker whose requests the exchange answers with ok  *)
(* or with error -4046 returns the broker, so a second start with the same *)
(* mode does not fail on the margin mode.                                  *)
(***************************************************************************)
C14_MarginModeIdempotent ==
    (call.op = "__init__"
        /\ \A k \in 1..Len(call.log) : call.log[k].ans \in {"ok", "-4046"})
    => (~Raised(call) /\ Ready)

\* The broker has been constructed with margin_mode isolated and every
\* symbol was answered -4046: an earlier start had set the mode, the
\* exchange's own being cross.
C14_Witness ==
    /\ call.op = "__init__" /\ Ready
    /\ cBroker.margin_mode = "isolated"
    /\ \A sym \in StoreSymbolSet : cxMargin[sym] = "ISOLATED"
    /\ Len(call.log) = 1 + 2 * Len(StoreSymbols)
    /\ \A k \in 1..Len(StoreSymbols) :
          call.log[1 + 2 * k] =
            SymReq("marginType", StoreSymbols[k], "-4046")

(***************************************************************************)
(* C15: when the construction of CCXTBroker has returned, it has sent for  *)
(* each symbol of store.symbols one leverage request and then one margin   *)
(* type request, and nothing else but load_markets; and whenever the       *)
(* broker exists, so that orders can be placed through it, every symbol    *)
(* has the broker's margin mode on the exchange.                           *)
(***************************************************************************)
C15_SetupOncePerSymbol ==
    /\ (call.op = "__init__" /\ ~Raised(call))
       => /\ Len(call.log) = 1 + 2 * Len(StoreSymbols)
          /\ \A k \in 1..Len(StoreSymbols) :
                /\ call.log[2 * k].req = "leverage"
                /\ call.log[2 * k].sym = StoreSymbols[k]
                /\ call.log[2 * k + 1].req = "marginType"
                /\ call.log[2 * k + 1].sym = StoreSymbols[k]
    /\ Ready
       => \A sym \in StoreSymbolSet :
             cxMargin[sym] = Upper(cBroker.margin_mode)

(***************************************************************************)
(* C17: in an _open_short with margin_mode isolated, the order request     *)
(* comes after a margin transfer that the exchange has taken, and after a  *)
(* failed transfer there is no order request and no new order; with        *)
(* margin_mode cross there is no transfer request.                         *)
(***************************************************************************)
Requested(log, r) == \E k \in 1..Len(log) : log[k].req = r

C17_TransferBeforeOrder ==
    [][Calling("_open_short") =>
        /\ cBroker.margin_mode = "isolated"
           => /\ \A k \in 1..Len(call'.log) :
                    call'.log[k].req = "order"
                    => /\ k > 1
                       /\ call'.log[k - 1] = Req("positionMargin", "ok")
              /\ (\E k \in 1..Len(call'.log) :
                     /\ call'.log[k].req = "positionMargin"
                     /\ call'.log[k].ans # "ok")
                 => /\ ~Requested(call'.log, "order")
                    /\ cxOrders' = cxOrders
        /\ cBroker.margin_mode = "cross"
           => ~Requested(call'.log, "positionMargin")
        /\ ~Requested(call'.log, "order") => cxOrders' = cxOrders]_vars

\* An _open_short of a broker in isolated mode has returned the order it
\* placed after the transfer.
C17_Witness ==
    /\ call.op = "_open_short" /\ call.ret = "order"
    /\ cBroker.margin_mode = "isolated"
    /\ call.log = <<Req("account", "ok"), Req("positionMargin", "ok"),
                    Req("order", "ok")>>

(***************************************************************************)
(* C18: an _open_short that ends for lack of funds leaves nothing behind:  *)
(* whether the balance read is below the margin or the exchange refuses    *)
(* the order for insufficient margin (-2019), the call has placed no order *)
(* and has transferred no margin.                                          *)
(***************************************************************************)
C18_AbortedOpenShortClean ==
    (call.op = "_open_short"
        /\ (call.error = "-2019"
              \/ (call.ret = "None" /\ call.log = <<Req("account", "ok")>>)))
    => \A k \in 1..Len(call.log) : call.log[k] # Req("positionMargin", "ok")

(***************************************************************************)
(* C16: no order is submitted for a symbol whose leverage was not          *)
(* confirmed: the strategy of 01-LiveTrade-futures.py has handed an order  *)
(* to its broker only if its leverage request was taken.                   *)
(***************************************************************************)
C16_NoTradeUnconfirmed ==
    jbs.submitted # <<>> => jbs.leverage = "set"

(***************************************************************************)
(* C19: a call of the broker that ends with a transient failure has made   *)
(* the failing request retries (3) times.                                  *)
(***************************************************************************)
C19_TransientRetried ==
    call.error = "transient"
    => Cardinality({k \in 1..Len(call.log) : call.log[k].ans = "transient"})
         = retries

(***************************************************************************)
(* C20: a failure that is not transient ends the retry loop: in next(), no *)
(* position request follows a position request that the exchange has       *)
(* refused.                                                                *)
(***************************************************************************)
C20_NonTransientNotRetried ==
    call.op = "next"
    => \A k \in 1..Len(call.log) :
          (call.log[k].req = "positionRisk"
              /\ call.log[k].ans \notin {"ok", "transient"})
          => ~(k < Len(call.log) /\ call.log[k + 1].req = "positionRisk")


(***************************************************************************)
(* C21: create_order with a side that is neither BUY nor SELL sends no     *)
(* request to the exchange, and the error its caller gets is the           *)
(* ValueError of the check of the side.                                    *)
(***************************************************************************)
\* This step is a create_order with the side HOLD.
CreatingInvalidSide ==
    \E type \in {OrderType_MARKET, OrderType_LIMIT}, amount \in 1..MaxLots,
       ans \in Answers : CCXTCreateOrder("HOLD", type, amount, ans)

C21_InvalidSideReported ==
    [][CreatingInvalidSide =>
        /\ call'.log = <<>>
        /\ cxOrders' = cxOrders
        /\ call'.error = "ValueError"]_vars

(***************************************************************************)
(* C22: no order is sent whose notional, the quantity sent times the       *)
(* price, is below the minimum notional max(10, cost minimum of the        *)
(* market): an _open_short that has sent an order request has sent it for  *)
(* target_qty with target_qty * current_price at or above that minimum,    *)
(* and a FuturesStrategy that has been constructed has a                   *)
(* min_position_value at or above it.                                      *)
(***************************************************************************)
C22_MinNotional ==
    /\ fs.state = "ready" =>
           ~RLess(fs.min_position_value, MinNotional(cxMarket))
    /\ (call.op = "_open_short" /\ Requested(call.log, "order")) =>
           /\ ~RLess(RMul(fs.sizing.target_qty, fs.sizing.current_price),
                     MinNotional(cxMarket))
           /\ call.ret = "order" =>
                  cxOrders[Len(cxOrders)].amount = fs.sizing.target_qty

\* _open_short has placed an order of a quantity that the rounding has made
\* smaller than the quantity computed, so that its notional is below the
\* target value and still not below the minimum.
C22_Witness ==
    /\ call.op = "_open_short" /\ call.ret = "order"
    /\ RLess(fs.sizing.target_qty, fs.sizing.raw)
    /\ RLess(RMul(fs.sizing.target_qty, fs.sizing.current_price),
             fs.min_position_value)
    /\ cxOrders[Len(cxOrders)].amount = fs.sizing.target_qty

(***************************************************************************)
(* C23: the quantity _open_short sends is the quantity it has computed cut *)
(* down to the decimals of the market's precision, and so never greater    *)
(* than the quantity computed.                                             *)
(***************************************************************************)
C23_QuantizationTruncates ==
    call.op = "_open_short" =>
        /\ fs.sizing.target_qty
             = Truncate(fs.sizing.raw, fs.sizing.precision)
        /\ ~RLess(fs.sizing.raw, fs.sizing.target_qty)

(***************************************************************************)
(* C24: a message of event type error is fatal for the connection: the     *)
(* handler leaves the orders, the positions and the notifications as they  *)
(* are, and the listener goes on to connect again.                         *)
(***************************************************************************)
C24_ErrorReconnects ==
    [][(Delivering /\ lastMsg'.e = "error") =>
        /\ UNCHANGED <<ords, orders, open_orders, positions, notifs>>
        /\ listener' = "reconnecting"]_vars

(***************************************************************************)
(* C25: a report of an order id that is in no list of the broker, a report *)
(* of a symbol outside store.symbols and a message of another event type   *)
(* are dropped: the handler raises nothing, the listener keeps listening,  *)
(* and the orders, the positions and the notifications stay as they are.   *)
(***************************************************************************)
\* msg is a report that matches no order of open_orders.
Unmatched(msg) ==
    /\ msg.e = "executionReport"
    /\ \A k \in 1..Len(open_orders) : ords[open_orders[k]].orderId # msg.i

Anomalous(msg) ==
    \/ msg.e \notin {"executionReport", "error"}
    \/ msg.e = "executionReport" /\ msg.s # Symbol
    \/ Unmatched(msg)

C25_AnomalyDropped ==
    [][(Delivering /\ Anomalous(lastMsg')) =>
        /\ UNCHANGED <<ords, orders, open_orders, positions, notifs>>
        /\ listener' = listener]_vars

\* The handler has been given an anomaly while the broker has an order and
\* a position, and the listener is still listening.
C25_Witness ==
    /\ lastMsg \in Anomalies
    /\ listener = "listening"
    /\ orders # <<>>
    /\ positions[DataName].size # 0

(***************************************************************************)
(* C26: the positions a broker keeps change by fills only: no query, of    *)
(* which get_position and close_position's reading of the position are     *)
(* two, changes or replaces an entry of positions.                         *)
(***************************************************************************)
C26_QueriesLeaveLedger ==
    [][(Calling("get_position") \/ Calling("close_position")) =>
        cPositions' = cPositions]_vars

(***************************************************************************)
(* C27: a fill of size s2 at price p2 on a position of size s1 at price p1 *)
(* of the same sign leaves the ledger at s1 + s2 at the price              *)
(* (s1*p1 + s2*p2) / (s1 + s2); a fill of the other sign that is smaller   *)
(* than the position leaves it at s1 + s2 at the price p1.  The fills are  *)
(* those of the orders filled at once, on return from _submit.             *)
(***************************************************************************)
C27_BlendedAverage ==
    [][ReturningFilled =>
        LET s1 == positions[DataDataname].size
            p1 == positions[DataDataname].price
            s2 == ords[Len(ords)].size
            p2 == ords[Len(ords)].price
        IN  /\ s1 * s2 > 0 =>
                positions'[DataDataname]
                  = [size |-> s1 + s2,
                     price |-> RDivInt(RAdd(RScale(p1, s1), RScale(p2, s2)),
                                       s1 + s2)]
            /\ (s1 * s2 < 0 /\ Abs(s2) < Abs(s1)) =>
                positions'[DataDataname] = [size |-> s1 + s2, price |-> p1]]_vars

(***************************************************************************)
(* C28: a fill of the other sign that is larger than the position closes   *)
(* it and opens the rest at the price of the fill: the ledger holds        *)
(* s1 + s2 at p2, whatever p1 was.                                         *)
(***************************************************************************)
C28_FlipAtFillPrice ==
    [][ReturningFilled =>
        LET s1 == positions[DataDataname].size
            s2 == ords[Len(ords)].size
            p2 == ords[Len(ords)].price
        IN  (s1 * s2 < 0 /\ Abs(s2) > Abs(s1)) =>
                positions'[DataDataname] = [size |-> s1 + s2, price |-> p2]]_vars

(***************************************************************************)
(* C29: a query of the balance returns what the exchange holds at the time *)
(* of the call: getcash asks the exchange during the call, and what it     *)
(* returns is the free balance of that moment, not one read before.        *)
(***************************************************************************)
C29_CashFresh ==
    [][Calling("getcash") =>
        /\ call'.log # <<>>
        /\ acct'.cash = acct.exchange]_vars

(***************************************************************************)
(* C30: the example strategy has one active order for its ticker at most:  *)
(* a next() hands an order to the broker only when the order it holds in   *)
(* self.orders for the ticker, if any, has completed or failed, and it     *)
(* hands over one order at most.                                           *)
(***************************************************************************)
C30_OneActiveOrder ==
    [][Len(jbs'.submitted) > Len(jbs.submitted) =>
        /\ jbs.orders # "order"
        /\ Len(jbs'.submitted) = Len(jbs.submitted) + 1]_vars

(***************************************************************************)
(* C31: every change of an order's state reaches the strategy through the  *)
(* notification queue: _submit recording an order that is already terminal *)
(* puts that order on the queue once, the handler taking a report of a     *)
(* recorded order puts that order on the queue once, and get_notification  *)
(* takes the oldest entry off the queue and leaves an empty queue empty.   *)
(***************************************************************************)
C31_ChangesNotified ==
    [][/\ (Registering /\ Terminal(ords'[Len(ords')].status))
          => notifs' = Append(notifs, Len(ords'))
       /\ (Delivering /\ Head(stream).e = "executionReport" /\ lastKnown')
          => Len(notifs') = Len(notifs) + 1
       /\ (notifs = <<>> /\ ~Registering /\ ~Delivering /\ ~Redelivering)
          => notifs' = <<>>
       /\ Len(notifs') < Len(notifs) => notifs' = Tail(notifs)]_vars

(***************************************************************************)
(* C32: get_position_info ends after three position requests at most.  It  *)
(* returns with the first answer that comes, having slept once after each  *)
(* request that failed before it; when the third request fails too it       *)
(* raises the error of that request, without a sleep after it, and it      *)
(* never returns without an answer.                                        *)
(***************************************************************************)
C32_PositionInfoEnds ==
    call.op = "get_position_info"
    => LET n == Len(call.log)
       IN  /\ n \in 1..max_retries
           /\ \A k \in 1..n : call.log[k].req = "positionRisk"
           /\ \A k \in 1..(n - 1) : call.log[k].ans # "ok"
           /\ jbs.slept = [k \in 1..(n - 1) |-> k]
           /\ IF Raised(call)
              THEN /\ n = max_retries
                   /\ call.error = call.log[n].ans
                   /\ call.error # "ok"
              ELSE /\ call.log[n].ans = "ok"
                   /\ call.ret \in {"None", "held"}

C32_Witness ==
    /\ call.op = "get_position_info"
    /\ Raised(call)
    /\ Len(call.log) = max_retries
    /\ jbs.slept = <<1, 2>>

(***************************************************************************)
(* C33: the status of an order depends on the status the exchange reports  *)
(* alone, the same on both channels: after _set_order_status has applied   *)
(* the status X to an order, the order has the status the constructor of   *)
(* BinanceOrder gives an order whose response has the status X.            *)
(***************************************************************************)
C33_StatusSameOnBothChannels ==
    lastMsg.e = "_set_order_status"
    => ords[lastMsg.i].status = StatusOfResponse(lastMsg.X)

(***************************************************************************)
(* C34: only fill reports move the position: the handler taking a report   *)
(* whose status is NEW, CANCELED, REJECTED or EXPIRED leaves every entry   *)
(* of the ledger and the executed size of every order as they are, and so  *)
(* does the body of its loop for the order of the report.                  *)
(***************************************************************************)
NoFill(msg) ==
    msg.e = "executionReport"
    /\ msg.X \in {"NEW", "CANCELED", "REJECTED", "EXPIRED"}

C34_OnlyFillsMove ==
    [][(Delivering /\ NoFill(Head(stream)))
        => /\ positions' = positions
           /\ \A r \in 1..Len(ords) : ords'[r].executed = ords[r].executed
           /\ \A r \in 1..Len(ords) :
                 ords[r].orderId = Head(stream).i
                 => LET b == HandleMatch(BrokerState, r, Head(stream))
                    IN  /\ b.positions = positions
                        /\ b.ords[r].executed = ords[r].executed]_vars

C34_Witness ==
    /\ lastMsg.e = "executionReport"
    /\ lastMsg.X = "CANCELED"
    /\ lastMsg.z > 0
    /\ lastKnown
    /\ ~lastDup

(***************************************************************************)
(* C35: on_data sends one order request at most and never both opens and   *)
(* closes.  It goes into _open_short, which reads the balance a second     *)
(* time, only for a position whose value at the close is below             *)
(* min_position_value; it goes into close_position, which reads the        *)
(* position a second time, only for one whose value is at or above it; and *)
(* without a record of the position it sends nothing but the position      *)
(* request.                                                                *)
(***************************************************************************)
Asks(log, r) == Cardinality({k \in 1..Len(log) : log[k].req = r})

OpenAttempted(log) == Asks(log, "account") >= 2

CloseAttempted(log) == Asks(log, "positionRisk") >= 2

C36_BalanceBeforeOpen ==
    call.op = "on_data"
    => /\ (OpenAttempted(call.log) /\ Requested(call.log, "order"))
          => /\ Len(fs.candle.balances) = 2
             /\ ~RLess(fs.candle.balances[1], fs.candle.required_margin)
             /\ ~RLess(fs.candle.balances[2],
                       fs.sizing.total_required_margin)
             /\ \A k \in 1..Len(call.log) :
                   call.log[k].req = "order"
                   => /\ k > 3
                      /\ call.log[2] = Req("account", "ok")
                      /\ call.log[3] = Req("account", "ok")
       /\ \A k \in 1..Len(call.log) :
             (call.log[k].req = "account" /\ call.log[k].ans # "ok")
             => /\ fs.candle.balances[k - 1] = <<0, 1>>
                /\ ~Requested(call.log, "positionMargin")
                /\ ~(OpenAttempted(call.log) /\ Requested(call.log, "order"))

\* on_data has opened a short position: both reads of the balance were
\* answered, the margin was moved and the order was taken.
C36_Witness ==
    /\ call.op = "on_data"
    /\ OpenAttempted(call.log)
    /\ Requested(call.log, "positionMargin")
    /\ call.log[Len(call.log)] = Req("order", "ok")
    /\ cxOrders # <<>>
    /\ cxOrders[Len(cxOrders)].side = "SELL"
    /\ cxOrders[Len(cxOrders)].amount = fs.sizing.target_qty

(***************************************************************************)
(* C37: on_data passes no error on to the run loop: whatever request of    *)
(* the candle fails, the position request, the account request, the        *)
(* transfer or the order of _open_short or of close_position, on_data      *)
(* returns None, and the strategy is there for the next candle.            *)
(***************************************************************************)
C37_OnDataCatches ==
    call.op = "on_data"
    => /\ ~Raised(call)
       /\ call.ret = "None"
       /\ fs.state = "ready"

\* The exchange has refused the order of _open_short, which logs the error
\* and raises it again; on_data has caught it.
C37_Witness ==
    /\ call.op = "on_data"
    /\ call.log # <<>>
    /\ call.log[Len(call.log)] = Req("order", "-2019")
    /\ OpenAttempted(call.log)

====
